---------------------------- MODULE Spec2Model ----------------------------
(***************************************************************************)
(* A model of dReal's ICP branch-and-prune engines:                        *)
(*   - the sequential engine  Icp::CheckSat          (dreal/solver/icp.cc) *)
(*   - the parallel engine    IcpParallel::CheckSat  (icp_parallel.cc)     *)
(* Both engines are run on the same problem (contractor, formula           *)
(* evaluators, initial box, precision): first the sequential one, then the *)
(* parallel one with number_of_jobs workers, every interleaving of the     *)
(* workers' accesses to the shared stack and the two atomics explored.     *)
(*                                                                         *)
(* Intervals are closed intervals <<lb, ub>> over an integer grid whose    *)
(* unit stands for the spacing of adjacent doubles: an interval is         *)
(* bisectable iff a grid point lies strictly between its bounds.           *)
(***************************************************************************)
EXTENDS Integers, Sequences, FiniteSets, TLC

(***************************************************************************)
(* Bounds of the model.                                                    *)
(***************************************************************************)
\* Largest number_of_jobs tried (config.number_of_jobs() ranges over 1..MaxJobs).
MaxJobs == 2
\* Upper bound of the first dimension of the widest initial box.
MaxWidth == 4
\* Largest n given to FillUp when it is run on its own.
MaxFill == 5
\* number_of_jobs of the config a ContractorIbexFwdbwdMt is constructed with.
MtJobs == 3
\* Largest number of Prune calls one thread makes on one contractor.
MaxPrunes == 2
\* Largest number of Prune calls made on one ContractorStatus by the polytope contractor.
MaxPolyCalls == 2
\* Largest number of threads started through JoiningThread objects.
MaxThreads == 3

(***************************************************************************)
(* Intervals and boxes (Box, Box::Interval).                               *)
(***************************************************************************)
Min(a, b) == IF a <= b THEN a ELSE b

\* Box::Interval::diam()
Diam(iv) == IF iv[1] > iv[2] THEN 0 ELSE iv[2] - iv[1]

\* Box::Interval::is_bisectable(): the midpoint is strictly inside.
IsBisectable(iv) == iv[2] - iv[1] >= 2

\* Box::Interval::mid()
Mid(iv) == (iv[1] + iv[2]) \div 2

\* The empty interval.
EmptyIv == <<1, 0>>

\* Box::empty()
IsEmpty(box) == \E i \in DOMAIN box : box[i][1] > box[i][2]

\* Box::set_empty(): the size of the box is kept.
SetEmpty(box) == [i \in DOMAIN box |-> EmptyIv]

\* Box::bisect(i): <<left, right>>, split at the midpoint of dimension i.
Bisect(box, i) ==
  << [box EXCEPT ![i] = <<box[i][1], Mid(box[i])>>],
     [box EXCEPT ![i] = <<Mid(box[i]), box[i][2]>>] >>

\* The grid points (assignments) of a box.
PointsOf(box) ==
  IF IsEmpty(box) THEN {}
  ELSE { p \in [DOMAIN box -> 0..MaxWidth + 1] :
           \A i \in DOMAIN box : box[i][1] <= p[i] /\ p[i] <= box[i][2] }

(***************************************************************************)
(* Formulas and their evaluators.  A formula is                            *)
(*     coef * SUM_{v \in vars} x_v  <=  c      (rel = "leq")               *)
(*     coef * SUM_{v \in vars} x_v  >=  c      (rel = "geq")               *)
(* and its evaluator computes the interval of  coef * SUM x_v - c  on the  *)
(* box by interval arithmetic.                                             *)
(***************************************************************************)
RECURSIVE SumOver(_, _, _)
SumOver(vars, box, side) ==
  IF vars = {} THEN 0
  ELSE LET v == CHOOSE v \in vars : TRUE
       IN  box[v][side] + SumOver(vars \ {v}, box, side)

\* The interval evaluation of the formula's expression on the box.
Evaluation(f, box) ==
  << f.coef * SumOver(f.vars, box, 1) - f.c,
     f.coef * SumOver(f.vars, box, 2) - f.c >>

\* FormulaEvaluator::operator()(box): FormulaEvaluationResult {type, evaluation}.
FormulaEvaluate(f, box) ==
  LET e == Evaluation(f, box)
      unsat == IF f.rel = "leq" THEN e[1] > 0 ELSE e[2] < 0
      valid == IF f.rel = "leq" THEN e[2] <= 0 ELSE e[1] >= 0
  IN  [ type |-> IF unsat THEN "UNSAT" ELSE IF valid THEN "VALID" ELSE "UNKNOWN",
        evaluation |-> e ]

\* Formula::Evaluate(env): the formula at one assignment.
Satisfies(p, f) ==
  LET v == f.coef * SumOver(f.vars, [i \in DOMAIN p |-> <<p[i], p[i]>>], 1) - f.c
  IN  IF f.rel = "leq" THEN v <= 0 ELSE v >= 0

SatisfiesAll(p, fs) == \A k \in DOMAIN fs : Satisfies(p, fs[k])

(***************************************************************************)
(* The contractor handed to CheckSat.  "Id" changes nothing; "Hull"        *)
(* narrows the box to the hull of the assignments that satisfy every       *)
(* formula and empties it when there is none; "Partial" changes nothing    *)
(* and raises an error (a DomainError) on a box that lies outside the      *)
(* domain of its expression, here x_1 <= 1.                                *)
(***************************************************************************)
\* Contractor::Prune(cs) raises an error on this box.
PruneRaises(kind, box) ==
  kind = "Partial" /\ ~IsEmpty(box) /\ box[1][2] <= 1

HullOf(pts, box) ==
  [ i \in DOMAIN box |->
      << CHOOSE lo \in {p[i] : p \in pts} : \A p \in pts : lo <= p[i],
         CHOOSE hi \in {p[i] : p \in pts} : \A p \in pts : hi >= p[i] >> ]

\* Contractor::Prune(cs), as a function of the box.
Prune(kind, fs, box) ==
  IF IsEmpty(box) THEN box
  ELSE IF kind \in {"Id", "Partial"} THEN box
  ELSE LET sols == { p \in PointsOf(box) : SatisfiesAll(p, fs) }
       IN  IF sols = {} THEN SetEmpty(box) ELSE HullOf(sols, box)

(***************************************************************************)
(* Icp::EvaluateBox.  The result record holds                              *)
(*   none      : TRUE iff nullopt is returned (a formula is UNSAT),        *)
(*   cand      : the branching_candidates bitset, as a set of dimensions,  *)
(*   used      : the formulas added to cs->used_constraints (indices),     *)
(*   evaluated : how many formula evaluators were called.                  *)
(***************************************************************************)
\* An UNKNOWN formula that contributes no dimension, however wide its evaluation.
UnknownCandidatesNone(f, res, box, precision) == {}

\* An UNKNOWN formula that contributes its bisectable dimensions whatever the width
\* of its evaluation.
UnknownCandidatesAnyWidth(f, res, box, precision) ==
  { v \in f.vars : IsBisectable(box[v]) }

\* The dimensions an UNKNOWN formula contributes (icp.cc:111-121).
UnknownCandidates(f, res, box, precision) ==
  IF Diam(res.evaluation) > precision
  THEN { v \in f.vars : IsBisectable(box[v]) }
  ELSE {}

RECURSIVE EvaluateFrom(_, _, _, _, _)
EvaluateFrom(fs, k, box, precision, cand) ==
  IF k > Len(fs)
  THEN [none |-> FALSE, cand |-> cand, used |-> {}, evaluated |-> Len(fs)]
  ELSE LET res == FormulaEvaluate(fs[k], box)
       IN  CASE res.type = "UNSAT" ->
                  [none |-> TRUE, cand |-> {}, used |-> {k}, evaluated |-> k]
             [] res.type = "VALID" ->
                  EvaluateFrom(fs, k + 1, box, precision, cand)
             [] OTHER ->
                  EvaluateFrom(fs, k + 1, box, precision,
                               cand \cup UnknownCandidates(fs[k], res, box, precision))

\* The evaluation of the last formula only.
EvaluateLast(fs, box, precision) == EvaluateFrom(fs, Len(fs), box, precision, {})

EvaluateBox(fs, box, precision) == EvaluateFrom(fs, 1, box, precision, {})

\* The formulas are added to used_constraints and the box is left as it is.
AddUsedOnly(cs, used) == [cs EXCEPT !.used_constraints = @ \cup used]

\* What the UNSAT case does to cs: set_empty and AddUsedConstraint (icp.cc:98-99).
MarkUnsat(cs, used) ==
  [cs EXCEPT !.box = SetEmpty(@), !.used_constraints = @ \cup used]

(***************************************************************************)
(* Branching-point selection.                                              *)
(***************************************************************************)
\* The first index of maximal diameter among `dims`, -1 when `dims` is empty.
FirstMaxDiam(box, dims) ==
  IF dims = {} THEN -1
  ELSE CHOOSE i \in dims :
         \A j \in dims : Diam(box[j]) < Diam(box[i])
                         \/ (Diam(box[j]) = Diam(box[i]) /\ i <= j)

\* FindMaxDiamIdx(box), icp_parallel.cc: -1 when no dimension is bisectable.
FindMaxDiamIdx(box) ==
  FirstMaxDiam(box, { i \in DOMAIN box : Diam(box[i]) > 0 /\ IsBisectable(box[i]) })

\* FindMaxDiam(box, bitset).second: the same search over the dimensions of the bitset.
FindMaxDiam(box, bitset) ==
  FirstMaxDiam(box, { i \in bitset : Diam(box[i]) > 0 /\ IsBisectable(box[i]) })

(***************************************************************************)
(* DoubleUp and FillUp: the initial seeding of the shared stack.           *)
(***************************************************************************)
\* What the first loop of DoubleUp pushes for one box (icp_parallel.cc:46-52).
DoubleUpOne(box) ==
  LET max_diam_idx == FindMaxDiamIdx(box)
  IN  IF max_diam_idx >= 0
      THEN LET bisect_result == Bisect(box, max_diam_idx)
           IN  <<bisect_result[1], bisect_result[2]>>
      ELSE <<>>

RECURSIVE DoubleUpFirst(_, _, _)
DoubleUpFirst(boxes, i, k) ==
  IF i > k THEN <<>>
  ELSE DoubleUpOne(boxes[i]) \o DoubleUpFirst(boxes, i + 1, k)

DoubleUp(boxes, n) ==
  LET k == Min(n - Len(boxes), Len(boxes))
  IN  DoubleUpFirst(boxes, 1, k) \o SubSeq(boxes, k + 1, Len(boxes))

RECURSIVE FillUpLoop(_, _)
FillUpLoop(ret, n) ==
  IF Len(ret) < n
  THEN LET new_ones == DoubleUp(ret, n)
       IN  IF Len(new_ones) = Len(ret) THEN ret ELSE FillUpLoop(new_ones, n)
  ELSE ret

FillUp(box, n) == FillUpLoop(<<box>>, n)

(***************************************************************************)
(* The problems the engines are run on.                                    *)
(***************************************************************************)
Formula(vars, coef, rel, c) == [vars |-> vars, coef |-> coef, rel |-> rel, c |-> c]

\* The initial boxes (two variables).
InitialBoxes ==
  { << <<0, MaxWidth>>, <<0, 2>> >>,
    << <<0, MaxWidth - 1>>, <<1, 1>> >>,
    << <<MaxWidth - 1, MaxWidth - 1>>, <<1, 1>> >> }

\* The lists of formulas.
FormulaLists ==
  { << Formula({1}, 1, "geq", 3) >>,
    << Formula({1, 2}, 1, "leq", 1), Formula({2}, 2, "geq", 1) >>,
    << Formula({2}, 1, "geq", 1), Formula({1}, 2, "leq", 3) >>,
    << Formula({1}, 2, "geq", 3), Formula({1}, 2, "leq", 1) >> }

\* config.precision(): 0 stands for a precision below the spacing of the grid.
Precisions == {0, 2}

Contractors == {"Id", "Hull", "Partial"}

BranchingStrategies == {"MaxDiam", "GradientDescent"}

\* The configurations.  The branching strategy is read by the sequential engine
\* only, so GradientDescent is tried with a single job; check_interrupt says that
\* the build defines DREAL_CHECK_INTERRUPT.
Configs ==
  { c \in [ precision : Precisions,
            number_of_jobs : 1..MaxJobs,
            stack_left_box_first : BOOLEAN,
            branching_strategy : BranchingStrategies,
            check_interrupt : BOOLEAN ] :
      /\ c.branching_strategy = "GradientDescent" => c.number_of_jobs = 1
      /\ c.check_interrupt => /\ c.branching_strategy = "MaxDiam"
                              /\ c.stack_left_box_first
                              /\ c.precision = 0 }

VARIABLES
  \* The problem: the arguments of CheckSat and the Config.
  config,               \* the Config
  contractor,           \* the contractor
  formula_evaluators,   \* the list of formulas
  box0,                 \* the box of the ContractorStatus CheckSat is called with
  \* Icp::CheckSat (sequential).
  seq_pc,               \* position in Icp::CheckSat
  seq_cs,               \* the caller's ContractorStatus: box, branching_point, used_constraints
  stack,                \* vector<pair<Box, int>> stack
  stack_left_box_first_,\* Icp::stack_left_box_first_
  branching_candidates, \* the bitset EvaluateBox returned
  seq_ret,              \* the value returned: "none" until it returns, then "true", "false" or "error"
  seq_stat,             \* stat.num_prune_, stat.num_branch_ of this call
  seq_hist,             \* history: the pushes and pops of the stack, the points examined
  \* IcpParallel::CheckSat and its workers.
  par_pc,            \* position of the caller in IcpParallel::CheckSat
  par_cs,            \* the caller's ContractorStatus
  fill,              \* the boxes of FillUp(...) the seeding loop has not pushed yet
  global_stack,      \* Stack<Box> global_stack (top = last); each box with its identity
  number_of_boxes,   \* atomic<int> number_of_boxes
  found_delta_sat,   \* atomic<int> found_delta_sat
  g_interrupted,     \* the process-wide interrupt flag
  status_vector_,    \* status_vector_[id]: the ContractorStatus of worker id
  w_pc,              \* position of each worker
  need_to_pop,       \* Worker's local need_to_pop
  w_left,            \* Worker's local stack_left_box_first
  w_box1,            \* ParallelBranch's box1 and box2 between fetch_add and push
  w_id,              \* identity of the box each worker has, <<>> when it has none
  par_ret,           \* the value returned: "none", "true", "false" or "error"
  par_hist           \* history: boxes created, popped, finished; points examined

problem_vars == << config, contractor, formula_evaluators, box0 >>

seq_vars == << seq_pc, seq_cs, stack, stack_left_box_first_, branching_candidates,
               seq_ret, seq_stat, seq_hist >>

par_vars == << par_pc, par_cs, fill, global_stack, number_of_boxes, found_delta_sat,
               g_interrupted, status_vector_, w_pc, need_to_pop, w_left, w_box1, w_id,
               par_ret, par_hist >>

icp_vars == << problem_vars, seq_vars, par_vars >>

VARIABLES
  \* FillUp(box, n) on its own (icp_parallel.cc:60-71).
  fu_box,            \* the argument box
  fu_n,              \* the argument n
  fu_ret,            \* vector<Box> ret
  fu_pc              \* position in FillUp: "loop" or "done"

fill_vars == << fu_box, fu_n, fu_ret, fu_pc >>

VARIABLES
  \* One ContractorIbexFwdbwdMt shared by the threads 0 .. number_of_jobs - 1
  \* (contractor_ibex_fwdbwd_mt.cc, both variants).
  mt_variant,        \* "lazy" (GetCtcOrCreate) or "eager" (constructor fills ctcs_)
  mt_asserts,        \* TRUE iff DREAL_ASSERT is compiled in
  ctc_ready_,        \* vector<int> ctc_ready_, indexed by thread id
  ctcs_,             \* vector<unique_ptr<ContractorIbexFwdbwd>>: object id, 0 = null
  mt_made,           \* number of ContractorIbexFwdbwd objects constructed so far
  mt_pc,             \* per thread: "idle", "pruning" (inside ctc->Prune) or "aborted"
  mt_ctc,            \* per thread: the object its current Prune runs on, 0 = none
  mt_calls,          \* per thread: number of Prune calls made
  mt_used,           \* history: per thread, the objects its Prune calls have run on
  mt_writes          \* history: per slot, the writes <<writer, writer's call number>>

mt_vars == << mt_variant, mt_asserts, ctc_ready_, ctcs_, mt_made, mt_pc, mt_ctc,
              mt_calls, mt_used, mt_writes >>

VARIABLES
  \* ContractorIbexPolytope::Prune(cs) (contractor_ibex_polytope.cc, part_001:89-119).
  poly_cs,           \* the ContractorStatus: box, output, used_constraints
  poly_old,          \* history: the ContractorStatus at the entry of the last call
  poly_calls         \* number of Prune calls made on poly_cs

poly_vars == << poly_cs, poly_old, poly_calls >>

VARIABLES
  \* One operation of a symbolic expression (symbolic_expression_cell.cc).
  sym_e,             \* the expression the operation is applied to
  sym_e2,            \* the second operand, when a cell is constructed from sym_e
  sym_x,             \* the variable of Differentiate
  sym_subst,         \* the substitution of Substitute: [expr, formula]
  sym_env,           \* the environment of Evaluate
  sym_op,            \* the operation applied: "none" before it
  sym_out,           \* what the operation returned
  sym_prev           \* what the first Expand returned, when Expand is applied twice

sym_vars == << sym_e, sym_e2, sym_x, sym_subst, sym_env, sym_op, sym_out, sym_prev >>

VARIABLES
  \* Icp::EvaluateBox(formula_evaluators, box, cs) on its own (icp.cc:85-127),
  \* box being cs->box() as in both engines.
  ev_fs,             \* the argument formula_evaluators
  ev_precision,      \* config_.precision()
  ev_cs,             \* the ContractorStatus: box, used_constraints
  ev_old,            \* history: the ContractorStatus at the entry of the call
  ev_out             \* position ("call", "done") and what was returned

eval_vars == << ev_fs, ev_precision, ev_cs, ev_old, ev_out >>

VARIABLES
  \* JoiningThread objects and the threads they start (joining_thread.h, part_004).
  jt_alive,          \* the JoiningThread objects constructed and not yet destroyed
  t_,                \* per object: the thread its std::thread t_ owns, 0 = not joinable
  jt_started,        \* number of threads started so far
  jt_joins,          \* history: per thread, how many times it was joined
  jt_terminated      \* std::terminate was called

jt_vars == << jt_alive, t_, jt_started, jt_joins, jt_terminated >>

\* The variables outside the two engines.
lib_vars == << fill_vars, mt_vars, poly_vars, sym_vars, eval_vars, jt_vars >>

\* What the steps of each component leave alone.
fill_frame == << icp_vars, mt_vars, poly_vars, sym_vars, eval_vars, jt_vars >>
mt_frame == << icp_vars, fill_vars, poly_vars, sym_vars, eval_vars, jt_vars >>
poly_frame == << icp_vars, fill_vars, mt_vars, sym_vars, eval_vars, jt_vars >>
sym_frame == << icp_vars, fill_vars, mt_vars, poly_vars, eval_vars, jt_vars >>
eval_frame == << icp_vars, fill_vars, mt_vars, poly_vars, sym_vars, jt_vars >>
jt_frame == << icp_vars, fill_vars, mt_vars, poly_vars, sym_vars, eval_vars >>

vars == << icp_vars, lib_vars >>

(***************************************************************************)
(* Icp::CheckSat, sequential (icp.cc:129-230).                             *)
(***************************************************************************)
\* The children of a bisection with the left one always first.
PushLeftFirst(boxes, left_first) == <<boxes[1], boxes[2]>>

\* The children of a bisection in the order they are pushed.
PushOrder(boxes, left_first) ==
  IF left_first THEN <<boxes[1], boxes[2]>> ELSE <<boxes[2], boxes[1]>>

\* icp.cc:133-148: the stack starts as [(cs->box(), -1)].
SeqStart ==
  /\ seq_pc = "call"
  /\ stack_left_box_first_' = config.stack_left_box_first
  /\ stack' = << <<seq_cs.box, -1>> >>
  /\ seq_hist' = [seq_hist EXCEPT !.pushes = 1, !.ages = <<1>>]
  /\ seq_pc' = "loop"
  /\ UNCHANGED << seq_cs, branching_candidates, seq_ret, seq_stat >>
  /\ UNCHANGED << problem_vars, par_vars, lib_vars >>

\* The oldest entry of the stack.
StackFront(st) == st[1]

\* The entry stack.back() and the stack after pop_back().
StackBack(st) == st[Len(st)]

StackPopBack(st) == SubSeq(st, 1, Len(st) - 1)

\* icp.cc:166-170: pop the back of the stack into cs.
SeqPop ==
  /\ seq_pc = "loop"
  /\ stack # <<>>
  /\ seq_cs' = [seq_cs EXCEPT !.box = StackBack(stack)[1],
                              !.branching_point = StackBack(stack)[2]]
  /\ stack' = StackPopBack(stack)
  /\ seq_hist' = [seq_hist EXCEPT !.ages = StackPopBack(@),
                                  !.popped = StackBack(seq_hist.ages)]
  /\ seq_pc' = "prune"
  /\ UNCHANGED << stack_left_box_first_, branching_candidates, seq_ret, seq_stat >>
  /\ UNCHANGED << problem_vars, par_vars, lib_vars >>

\* icp.cc:166, 228-229: the stack is empty, no solution.
SeqReturnFalse ==
  /\ seq_pc = "loop"
  /\ stack = <<>>
  /\ seq_ret' = "false"
  /\ seq_pc' = "done"
  /\ UNCHANGED << seq_cs, stack, stack_left_box_first_, branching_candidates,
                  seq_stat, seq_hist >>
  /\ UNCHANGED << problem_vars, par_vars, lib_vars >>

\* icp.cc:172-185: prune the current box; an empty box is dropped.  An error
\* raised by the contractor leaves CheckSat.
SeqPrune ==
  /\ seq_pc = "prune"
  /\ IF PruneRaises(contractor, seq_cs.box)
     THEN /\ seq_ret' = "error"
          /\ seq_pc' = "done"
          /\ UNCHANGED << seq_cs, seq_hist, seq_stat >>
     ELSE LET pruned == Prune(contractor, formula_evaluators, seq_cs.box)
          IN  /\ seq_cs' = [seq_cs EXCEPT !.box = pruned]
              /\ seq_hist' = [seq_hist EXCEPT !.examined =
                                @ \cup (PointsOf(seq_cs.box) \ PointsOf(pruned))]
              /\ seq_pc' = IF IsEmpty(pruned) THEN "loop" ELSE "eval"
              /\ seq_stat' = [seq_stat EXCEPT !.num_prune = @ + 1]
              /\ UNCHANGED seq_ret
  /\ UNCHANGED << stack, stack_left_box_first_, branching_candidates >>
  /\ UNCHANGED << problem_vars, par_vars, lib_vars >>

\* A box is delta-sat when EvaluateBox returns an empty bitset (icp.cc:199).
IsDeltaSat(r) == ~r.none /\ r.cand = {}

\* icp.cc:186-204: evaluate the box.
SeqEvaluate ==
  /\ seq_pc = "eval"
  /\ LET r == EvaluateBox(formula_evaluators, seq_cs.box, config.precision)
     IN  IF r.none
         THEN /\ seq_cs' = MarkUnsat(seq_cs, r.used)
              /\ seq_hist' = [seq_hist EXCEPT !.examined = @ \cup PointsOf(seq_cs.box)]
              /\ seq_pc' = "loop"
              /\ UNCHANGED << branching_candidates, seq_ret >>
         ELSE IF IsDeltaSat(r)
         THEN /\ seq_ret' = "true"
              /\ seq_pc' = "done"
              /\ UNCHANGED << seq_cs, branching_candidates, seq_hist >>
         ELSE /\ branching_candidates' = r.cand
              /\ seq_pc' = "branch"
              /\ UNCHANGED << seq_cs, seq_ret, seq_hist >>
  /\ UNCHANGED << stack, stack_left_box_first_, seq_stat >>
  /\ UNCHANGED << problem_vars, par_vars, lib_vars >>

\* The stack and its history after both children of a bisection at `bp` are pushed.
SeqPushChildren(bp, left_first) ==
  LET children == PushOrder(Bisect(seq_cs.box, bp), left_first)
  IN  /\ stack' = stack \o << <<children[1], bp>>, <<children[2], bp>> >>
      /\ seq_hist' = [seq_hist EXCEPT
                        !.pushes = @ + 2,
                        !.ages = @ \o << seq_hist.pushes + 1, seq_hist.pushes + 2 >>,
                        !.orders = Append(@, left_first)]

\* BranchMaxDiam(box, candidates, stack_left_box_first, &stack): TRUE when no
\* branching point is found, otherwise both children are pushed (icp.cc:210-218).
SeqBranchMaxDiam ==
  /\ seq_pc = "branch"
  /\ config.branching_strategy = "MaxDiam"
  /\ seq_stat' = [seq_stat EXCEPT !.num_branch = @ + 1]
  /\ LET bp == FindMaxDiam(seq_cs.box, branching_candidates)
     IN  IF bp < 0
         THEN /\ seq_ret' = "true"
              /\ seq_pc' = "done"
              /\ UNCHANGED << stack, stack_left_box_first_, seq_hist >>
         ELSE /\ SeqPushChildren(bp, stack_left_box_first_)
              /\ stack_left_box_first_' = ~stack_left_box_first_
              /\ seq_pc' = "loop"
              /\ UNCHANGED seq_ret
  /\ UNCHANGED << seq_cs, branching_candidates >>
  /\ UNCHANGED << problem_vars, par_vars, lib_vars >>

\* BranchGradientDescent(constraints, config, candidates, &box, &stack): any
\* bisectable candidate may be chosen; the policy is not flipped (icp.cc:219-224).
SeqBranchGradientDescent ==
  /\ seq_pc = "branch"
  /\ config.branching_strategy = "GradientDescent"
  /\ seq_stat' = [seq_stat EXCEPT !.num_branch = @ + 1]
  /\ LET dims == { i \in branching_candidates : IsBisectable(seq_cs.box[i]) }
     IN  IF dims = {}
         THEN /\ seq_ret' = "true"
              /\ seq_pc' = "done"
              /\ UNCHANGED << stack, seq_hist >>
         ELSE /\ \E bp \in dims : SeqPushChildren(bp, stack_left_box_first_)
              /\ seq_pc' = "loop"
              /\ UNCHANGED seq_ret
  /\ UNCHANGED << seq_cs, branching_candidates, stack_left_box_first_ >>
  /\ UNCHANGED << problem_vars, par_vars, lib_vars >>

SeqInit ==
  /\ seq_pc = "call"
  /\ seq_cs = [box |-> box0, branching_point |-> -1, used_constraints |-> {}]
  /\ stack = <<>>
  /\ stack_left_box_first_ = TRUE
  /\ branching_candidates = {}
  /\ seq_ret = "none"
  /\ seq_stat = [num_prune |-> 0, num_branch |-> 0]
  /\ seq_hist = [pushes |-> 0, ages |-> <<>>, popped |-> 0, orders |-> <<>>,
                 examined |-> {}]

ProblemInit ==
  /\ config \in Configs
  /\ contractor \in Contractors
  /\ formula_evaluators \in FormulaLists
  /\ box0 \in InitialBoxes

(***************************************************************************)
(* IcpParallel::CheckSat (icp_parallel.cc:241-303) and its workers          *)
(* (icp_parallel.cc:104-232).  Worker ids are 0 .. number_of_jobs - 1; the  *)
(* last one runs on the calling thread.                                     *)
(***************************************************************************)
Workers == 0 .. config.number_of_jobs - 1

NoBox == [box |-> <<>>, id |-> <<>>]

\* The positions of a worker inside its loop.
InLoop == {"test_found", "test_count", "body", "prune", "push"}

\* The worker has a box it popped, or kept from a bisection, and has not discarded.
Undiscarded(w) == w_id[w] # <<>>

\* The worker is in the middle of an iteration holding a box it has not yet
\* discarded.
Holding(w) == Undiscarded(w) /\ w_pc[w] \in InLoop

\* icp_parallel.cc:244-258: the initial Prune; an empty box is UNSAT at once.
ParStart ==
  /\ par_pc = "call"
  /\ seq_pc = "done"
  /\ IF PruneRaises(contractor, par_cs.box)
     THEN /\ par_ret' = "error"
          /\ par_pc' = "done"
          /\ UNCHANGED << par_cs, par_hist, fill >>
     ELSE LET pruned == Prune(contractor, formula_evaluators, par_cs.box)
          IN  /\ par_cs' = [par_cs EXCEPT !.box = pruned]
              /\ par_hist' = [par_hist EXCEPT !.examined =
                                @ \cup (PointsOf(par_cs.box) \ PointsOf(pruned))]
              /\ IF IsEmpty(pruned)
                 THEN /\ par_ret' = "false"
                      /\ par_pc' = "done"
                      /\ fill' = fill
                 ELSE /\ par_ret' = par_ret
                      /\ par_pc' = "seed"
                      /\ fill' = FillUp(pruned, config.number_of_jobs)
  /\ UNCHANGED << global_stack, number_of_boxes, found_delta_sat, g_interrupted,
                  status_vector_, w_pc, need_to_pop, w_left, w_box1, w_id >>
  /\ UNCHANGED << problem_vars, seq_vars, lib_vars >>

\* icp_parallel.cc:261-262: global_stack.push(box) of the seeding loop.
ParSeedPush ==
  /\ par_pc = "seed"
  /\ fill # <<>>
  /\ LET id == << par_hist.seeded + 1 >>
     IN  /\ global_stack' = Append(global_stack, [box |-> Head(fill), id |-> id])
         /\ par_hist' = [par_hist EXCEPT !.seeded = @ + 1,
                                         !.created = @ \cup {id}]
  /\ par_pc' = "seed_count"
  /\ UNCHANGED << par_cs, fill, number_of_boxes, found_delta_sat, g_interrupted,
                  status_vector_, w_pc, need_to_pop, w_left, w_box1, w_id, par_ret >>
  /\ UNCHANGED << problem_vars, seq_vars, lib_vars >>

\* icp_parallel.cc:263: ++number_of_boxes of the seeding loop.
ParSeedCount ==
  /\ par_pc = "seed_count"
  /\ number_of_boxes' = number_of_boxes + 1
  /\ fill' = Tail(fill)
  /\ par_pc' = "seed"
  /\ UNCHANGED << par_cs, global_stack, found_delta_sat, g_interrupted, status_vector_,
                  w_pc, need_to_pop, w_left, w_box1, w_id, par_ret, par_hist >>
  /\ UNCHANGED << problem_vars, seq_vars, lib_vars >>

\* icp_parallel.cc:269-283: every worker gets a copy of cs and starts.
ParSpawn ==
  /\ par_pc = "seed"
  /\ fill = <<>>
  /\ status_vector_' = [w \in Workers |-> par_cs]
  /\ w_pc' = [w \in Workers |-> "test_found"]
  /\ need_to_pop' = [w \in Workers |-> TRUE]
  /\ w_left' = [w \in Workers |-> config.stack_left_box_first]
  /\ w_box1' = [w \in Workers |-> NoBox]
  /\ w_id' = [w \in Workers |-> <<>>]
  /\ par_pc' = "barrier"
  /\ UNCHANGED << par_cs, fill, global_stack, number_of_boxes, found_delta_sat,
                  g_interrupted, par_ret, par_hist >>
  /\ UNCHANGED << problem_vars, seq_vars, lib_vars >>

\* SIGINT arrives while the workers run: the handler sets g_interrupted.
Sigint ==
  /\ config.check_interrupt
  /\ par_pc = "barrier"
  /\ ~g_interrupted
  /\ g_interrupted' = TRUE
  /\ UNCHANGED << par_pc, par_cs, fill, global_stack, number_of_boxes,
                  found_delta_sat, status_vector_, w_pc, need_to_pop, w_left, w_box1,
                  w_id, par_ret, par_hist >>
  /\ UNCHANGED << problem_vars, seq_vars, lib_vars >>

\* What a worker leaves unchanged when it only moves on.
WorkerMoves(w, pc) ==
  /\ w_pc' = [w_pc EXCEPT ![w] = pc]
  /\ UNCHANGED << par_pc, par_cs, fill, global_stack, number_of_boxes,
                  found_delta_sat, g_interrupted, status_vector_, need_to_pop, w_left,
                  w_box1, w_id, par_ret, par_hist >>
  /\ UNCHANGED << problem_vars, seq_vars, lib_vars >>

\* icp_parallel.cc:127: the first conjunct of the loop condition.
WTestFound(w) ==
  /\ w_pc[w] = "test_found"
  /\ WorkerMoves(w, IF found_delta_sat = -1 THEN "test_count" ELSE "returned")

\* icp_parallel.cc:128: the second conjunct of the loop condition.
WTestCount(w) ==
  /\ w_pc[w] = "test_count"
  /\ WorkerMoves(w, IF number_of_boxes > 0 THEN "body" ELSE "returned")

\* icp_parallel.cc:131-136: with DREAL_CHECK_INTERRUPT, an interrupted worker
\* throws at the head of the loop body.
WInterrupt(w) ==
  /\ w_pc[w] = "body"
  /\ config.check_interrupt
  /\ g_interrupted
  /\ WorkerMoves(w, "threw")

\* The top box is read and left on the stack.
PopTopLeavesBox(w) ==
  LET top == global_stack[Len(global_stack)]
  IN  /\ global_stack' = global_stack
      /\ status_vector_' = [status_vector_ EXCEPT ![w].box = top.box]
      /\ w_id' = [w_id EXCEPT ![w] = top.id]
      /\ par_hist' = [par_hist EXCEPT
                        !.popped = @ \cup {top.id},
                        !.twice = @ \/ top.id \in par_hist.popped]

\* Stack<Box>::pop(current_box) succeeds.
PopTop(w) ==
  LET top == global_stack[Len(global_stack)]
  IN  /\ global_stack' = SubSeq(global_stack, 1, Len(global_stack) - 1)
      /\ status_vector_' = [status_vector_ EXCEPT ![w].box = top.box]
      /\ w_id' = [w_id EXCEPT ![w] = top.id]
      /\ par_hist' = [par_hist EXCEPT
                        !.popped = @ \cup {top.id},
                        !.twice = @ \/ top.id \in par_hist.popped]

\* icp_parallel.cc:142-149: pop a box unless one was kept; spin when there is none.
WPop(w) ==
  /\ w_pc[w] = "body"
  /\ ~(config.check_interrupt /\ g_interrupted)
  /\ IF need_to_pop[w]
     THEN IF global_stack # <<>>
          THEN /\ PopTop(w)
               /\ w_pc' = [w_pc EXCEPT ![w] = "prune"]
          ELSE /\ w_pc' = [w_pc EXCEPT ![w] = "test_found"]
               /\ UNCHANGED << global_stack, status_vector_, w_id, par_hist >>
     ELSE /\ w_pc' = [w_pc EXCEPT ![w] = "prune"]
          /\ UNCHANGED << global_stack, status_vector_, w_id, par_hist >>
  /\ need_to_pop' = [need_to_pop EXCEPT ![w] = TRUE]
  /\ UNCHANGED << par_pc, par_cs, fill, number_of_boxes, found_delta_sat,
                  g_interrupted, w_left, w_box1, par_ret >>
  /\ UNCHANGED << problem_vars, seq_vars, lib_vars >>

\* The box of worker w becomes `b` and is dropped without being counted off.
DiscardUncounted(w, b, used) ==
  /\ status_vector_' = [status_vector_ EXCEPT
                          ![w].box = b,
                          ![w].used_constraints = @ \cup used]
  /\ number_of_boxes' = number_of_boxes
  /\ w_id' = [w_id EXCEPT ![w] = <<>>]
  /\ w_pc' = [w_pc EXCEPT ![w] = "test_found"]
  /\ UNCHANGED << found_delta_sat, w_box1 >>

\* The box of worker w becomes `b` and is counted off twice.
DiscardCountedTwice(w, b, used) ==
  /\ status_vector_' = [status_vector_ EXCEPT
                          ![w].box = b,
                          ![w].used_constraints = @ \cup used]
  /\ number_of_boxes' = number_of_boxes - 2
  /\ w_id' = [w_id EXCEPT ![w] = <<>>]
  /\ w_pc' = [w_pc EXCEPT ![w] = "test_found"]
  /\ UNCHANGED << found_delta_sat, w_box1 >>

\* The box of worker w becomes `b` and is discarded: number_of_boxes.fetch_sub(1)
\* (icp_parallel.cc:180-185, 192-200).
Discard(w, b, used) ==
  /\ status_vector_' = [status_vector_ EXCEPT
                          ![w].box = b,
                          ![w].used_constraints = @ \cup used]
  /\ number_of_boxes' = number_of_boxes - 1
  /\ w_id' = [w_id EXCEPT ![w] = <<>>]
  /\ w_pc' = [w_pc EXCEPT ![w] = "test_found"]
  /\ UNCHANGED << found_delta_sat, w_box1 >>

\* The worker publishes its id and returns (icp_parallel.cc:201-207, 215-222).
FoundDeltaSat(w, b) ==
  /\ status_vector_' = [status_vector_ EXCEPT ![w].box = b]
  /\ found_delta_sat' = w
  /\ w_pc' = [w_pc EXCEPT ![w] = "returned"]
  /\ UNCHANGED << number_of_boxes, w_box1, w_id >>

\* The first half of ParallelBranch (icp_parallel.cc:77-93): bisect, fetch_add.
BranchCount(w, b, bp) ==
  LET children == PushOrder(Bisect(b, bp), w_left[w])
      side == IF w_left[w] THEN <<1, 2>> ELSE <<2, 1>>
  IN  /\ status_vector_' = [status_vector_ EXCEPT ![w].box = b]
      /\ number_of_boxes' = number_of_boxes + 1
      /\ w_box1' = [w_box1 EXCEPT ![w] =
                      [ box |-> children[1], id |-> Append(w_id[w], side[1]),
                        keep |-> children[2], keep_id |-> Append(w_id[w], side[2]) ]]
      /\ w_pc' = [w_pc EXCEPT ![w] = "push"]
      /\ UNCHANGED << found_delta_sat, w_id >>

\* The history after worker w is done with its box, whose points outside `rest`
\* have been shown to hold no solution.
Finished(w, box, rest, children) ==
  [par_hist EXCEPT !.examined = @ \cup (PointsOf(box) \ rest),
                   !.finished = @ \cup {w_id[w]},
                   !.twice = @ \/ w_id[w] \in par_hist.finished,
                   !.created = @ \cup children]

\* icp_parallel.cc:168-214: Prune, EvaluateBox and what follows from them, up to
\* and including the one access to shared memory this iteration makes next.  An
\* error raised by the contractor leaves Worker.
WProcess(w) ==
  /\ w_pc[w] = "prune"
  /\ LET box == status_vector_[w].box
         pruned == Prune(contractor, formula_evaluators, box)
         r == EvaluateBox(formula_evaluators, pruned, config.precision)
         bp == FindMaxDiam(pruned, r.cand)
     IN  IF PruneRaises(contractor, box)
         THEN /\ w_pc' = [w_pc EXCEPT ![w] = "threw"]
              /\ UNCHANGED << status_vector_, number_of_boxes, found_delta_sat, w_box1,
                              w_id, par_hist >>
         ELSE IF IsEmpty(pruned)
         THEN /\ Discard(w, pruned, {})
              /\ par_hist' = Finished(w, box, {}, {})
         ELSE IF r.none
         THEN /\ Discard(w, SetEmpty(pruned), r.used)
              /\ par_hist' = Finished(w, box, {}, {})
         ELSE IF r.cand = {} \/ bp < 0
         THEN /\ FoundDeltaSat(w, pruned)
              /\ par_hist' = [par_hist EXCEPT
                                !.examined = @ \cup (PointsOf(box) \ PointsOf(pruned)),
                                !.finders = @ \cup {[id |-> w, box |-> pruned]}]
         ELSE /\ BranchCount(w, pruned, bp)
              /\ par_hist' = Finished(w, box, PointsOf(pruned),
                                      { Append(w_id[w], 1), Append(w_id[w], 2) })
  /\ UNCHANGED << par_pc, par_cs, fill, global_stack, g_interrupted, need_to_pop,
                  w_left, par_ret >>
  /\ UNCHANGED << problem_vars, seq_vars, lib_vars >>

\* The second half of ParallelBranch and the end of the iteration
\* (icp_parallel.cc:96-98, 225-230): push box1, keep box2, flip the policy.
WPush(w) ==
  /\ w_pc[w] = "push"
  /\ global_stack' = Append(global_stack,
                            [box |-> w_box1[w].box, id |-> w_box1[w].id])
  /\ status_vector_' = [status_vector_ EXCEPT ![w].box = w_box1[w].keep]
  /\ w_id' = [w_id EXCEPT ![w] = w_box1[w].keep_id]
  /\ w_box1' = [w_box1 EXCEPT ![w] = NoBox]
  /\ need_to_pop' = [need_to_pop EXCEPT ![w] = FALSE]
  /\ w_left' = [w_left EXCEPT ![w] = ~w_left[w]]
  /\ w_pc' = [w_pc EXCEPT ![w] = "test_found"]
  /\ UNCHANGED << par_pc, par_cs, fill, number_of_boxes, found_delta_sat,
                  g_interrupted, par_ret, par_hist >>
  /\ UNCHANGED << problem_vars, seq_vars, lib_vars >>

\* After CheckSat has left with an error its locals global_stack, number_of_boxes
\* and found_delta_sat are gone while a pool worker still uses them: the worker
\* may go on as if they were intact (its other actions) or fault.
WDangling(w) ==
  /\ par_pc = "done"
  /\ par_ret = "error"
  /\ w_pc[w] \in InLoop
  /\ WorkerMoves(w, "crashed")

\* ContractorStatus::InplaceJoin over all workers: the union of used_constraints.
JoinedUsed ==
  par_cs.used_constraints \cup
  UNION { status_vector_[w].used_constraints : w \in Workers }

\* The main Worker call has returned and every result.get() has returned.
AllReturned == \A w \in Workers : w_pc[w] = "returned"

\* The call Worker(..., last_index, ...) on the calling thread throws, or a
\* result.get() of the barrier rethrows what its worker threw: the futures are
\* waited for in the order of the worker ids (icp_parallel.cc:280-288).
Rethrows ==
  LET main == config.number_of_jobs - 1
  IN  \/ w_pc[main] = "threw"
      \/ /\ w_pc[main] = "returned"
         /\ \E i \in Workers \ {main} :
              /\ w_pc[i] = "threw"
              /\ \A j \in 0 .. i - 1 : w_pc[j] = "returned"

\* The error leaves CheckSat: cs is as the initial Prune left it.
ParRethrow ==
  /\ par_pc = "barrier"
  /\ Rethrows
  /\ par_ret' = "error"
  /\ par_pc' = "done"
  /\ UNCHANGED << par_cs, fill, global_stack, number_of_boxes, found_delta_sat,
                  g_interrupted, status_vector_, w_pc, need_to_pop, w_left, w_box1,
                  w_id, par_hist >>
  /\ UNCHANGED << problem_vars, seq_vars, lib_vars >>

\* The box of the first worker, whoever found a box.
FoundBoxOfFirstWorker == status_vector_[0].box

\* The box CheckSat hands back on success (icp_parallel.cc:296).
FoundBox == status_vector_[found_delta_sat].box

\* icp_parallel.cc:285-297: all workers are joined, a delta-sat box was found.
ParReturnTrue ==
  /\ par_pc = "barrier"
  /\ AllReturned
  /\ found_delta_sat >= 0
  /\ par_cs' = [par_cs EXCEPT !.box = FoundBox,
                              !.used_constraints = JoinedUsed]
  /\ par_ret' = "true"
  /\ par_pc' = "done"
  /\ UNCHANGED << fill, global_stack, number_of_boxes, found_delta_sat, g_interrupted,
                  status_vector_, w_pc, need_to_pop, w_left, w_box1, w_id, par_hist >>
  /\ UNCHANGED << problem_vars, seq_vars, lib_vars >>

\* The caller's box when it is not emptied.
BoxLeftAsIs(box) == box

\* cs->mutable_box().set_empty() before false is returned (icp_parallel.cc:300).
BoxOnUnsat(box) == SetEmpty(box)

\* icp_parallel.cc:285-293, 298-302: all workers are joined, none found a box.
ParReturnFalse ==
  /\ par_pc = "barrier"
  /\ AllReturned
  /\ found_delta_sat < 0
  /\ par_cs' = [par_cs EXCEPT !.box = BoxOnUnsat(@),
                              !.used_constraints = JoinedUsed]
  /\ par_ret' = "false"
  /\ par_pc' = "done"
  /\ UNCHANGED << fill, global_stack, number_of_boxes, found_delta_sat, g_interrupted,
                  status_vector_, w_pc, need_to_pop, w_left, w_box1, w_id, par_hist >>
  /\ UNCHANGED << problem_vars, seq_vars, lib_vars >>

ParInit ==
  /\ par_pc = "call"
  /\ par_cs = [box |-> box0, branching_point |-> -1, used_constraints |-> {}]
  /\ fill = <<>>
  /\ global_stack = <<>>
  /\ number_of_boxes = 0
  /\ found_delta_sat = -1
  /\ g_interrupted = FALSE
  /\ status_vector_ = <<>>
  /\ w_pc = [w \in Workers |-> "idle"]
  /\ need_to_pop = [w \in Workers |-> TRUE]
  /\ w_left = [w \in Workers |-> config.stack_left_box_first]
  /\ w_box1 = [w \in Workers |-> NoBox]
  /\ w_id = [w \in Workers |-> <<>>]
  /\ par_ret = "none"
  /\ par_hist = [seeded |-> 0, created |-> {}, popped |-> {}, finished |-> {},
                 twice |-> FALSE, examined |-> {}, finders |-> {}]

(***************************************************************************)
(* FillUp(box, n) run on its own, one pass of its loop at a time           *)
(* (icp_parallel.cc:60-71).                                                *)
(***************************************************************************)
\* The boxes FillUp is given: [0, w1] x [0, w2].
FillBoxes == { << <<0, w1>>, <<0, w2>> >> : w1 \in 0 .. MaxWidth - 1, w2 \in 0 .. 2 }

\* icp_parallel.cc:61: vector<Box> ret{box}.
FillInit ==
  /\ fu_box \in FillBoxes
  /\ fu_n \in 1 .. MaxFill
  /\ fu_ret = << fu_box >>
  /\ fu_pc = "loop"

\* FillUp is not run.
FillIdle ==
  /\ fu_box = << <<0, 0>>, <<0, 0>> >>
  /\ fu_n = 1
  /\ fu_ret = << >>
  /\ fu_pc = "done"

\* icp_parallel.cc:62-69: one pass of the while loop.
FillUpPass ==
  /\ fu_pc = "loop"
  /\ Len(fu_ret) < fu_n
  /\ LET new_ones == DoubleUp(fu_ret, fu_n)
     IN  IF Len(new_ones) = Len(fu_ret)
         THEN fu_pc' = "done" /\ fu_ret' = fu_ret
         ELSE fu_pc' = "loop" /\ fu_ret' = new_ones
  /\ UNCHANGED << fu_box, fu_n >>
  /\ UNCHANGED fill_frame

\* icp_parallel.cc:62, 70: the loop condition fails, ret is returned.
FillUpReturn ==
  /\ fu_pc = "loop"
  /\ Len(fu_ret) >= fu_n
  /\ fu_pc' = "done"
  /\ UNCHANGED << fu_box, fu_n, fu_ret >>
  /\ UNCHANGED fill_frame

\* The engines are not run: they stay at the entry of CheckSat on one problem.
IcpIdle ==
  /\ config = [precision |-> 0, number_of_jobs |-> 1, stack_left_box_first |-> TRUE,
               branching_strategy |-> "MaxDiam", check_interrupt |-> FALSE]
  /\ contractor = "Id"
  /\ formula_evaluators = << Formula({1}, 1, "geq", 3) >>
  /\ box0 = << <<0, 0>>, <<0, 0>> >>
  /\ SeqInit
  /\ ParInit

(***************************************************************************)
(* ContractorIbexFwdbwdMt: one contractor object shared by the threads of  *)
(* the pool, each thread pruning with the ContractorIbexFwdbwd of its own  *)
(* slot (contractor_ibex_fwdbwd_mt.cc; lazy variant part_001:207-255,      *)
(* eager variant part_001:149-189).                                        *)
(***************************************************************************)
\* The thread ids ThreadPool::get_thread_id() returns: one per job.
MtThreads == 0 .. MtJobs - 1

\* The writer recorded for a slot the constructor fills.
Ctor == -1

\* part_001:230: if (ctc_ready_[tid]).
CtcAlwaysCreated(tid) == FALSE
CtcReady(tid) == ctc_ready_[tid] = 1

\* The constructors: part_001:207-216 (lazy: ctc_ready_ all 0, ctcs_ all null),
\* part_001:149-168 (eager: one ContractorIbexFwdbwd per slot).
MtInit ==
  /\ mt_variant \in {"lazy", "eager"}
  /\ mt_asserts \in BOOLEAN
  /\ ctc_ready_ = [i \in MtThreads |-> 0]
  /\ ctcs_ = [i \in MtThreads |-> IF mt_variant = "eager" THEN i + 1 ELSE 0]
  /\ mt_made = IF mt_variant = "eager" THEN MtJobs ELSE 0
  /\ mt_pc = [t \in MtThreads |-> "idle"]
  /\ mt_ctc = [t \in MtThreads |-> 0]
  /\ mt_calls = [t \in MtThreads |-> 0]
  /\ mt_used = [t \in MtThreads |-> {}]
  /\ mt_writes = [i \in MtThreads |->
                    IF mt_variant = "eager" THEN << <<Ctor, 0>> >> ELSE << >>]

\* No ContractorIbexFwdbwdMt is in use.
MtIdle ==
  /\ mt_variant = "lazy"
  /\ mt_asserts = FALSE
  /\ ctc_ready_ = [i \in MtThreads |-> 0]
  /\ ctcs_ = [i \in MtThreads |-> 0]
  /\ mt_made = 0
  /\ mt_pc = [t \in MtThreads |-> "aborted"]
  /\ mt_ctc = [t \in MtThreads |-> 0]
  /\ mt_calls = [t \in MtThreads |-> 0]
  /\ mt_used = [t \in MtThreads |-> {}]
  /\ mt_writes = [i \in MtThreads |-> << >>]

\* part_001:252-255 (lazy): is_dummy() asserts ctc_ready_[0]; Prune evaluates it
\* inside DREAL_ASSERT (part_001:242), so only when assertions are compiled in.
\* The eager variant asserts !is_dummy_ (part_001:176), a field set by the
\* constructor from a non-dummy formula.
PruneAssertFails ==
  mt_asserts /\ mt_variant = "lazy" /\ ctc_ready_[0] = 0

\* Prune up to the call ctc->Prune(cs): part_001:241-245 with GetCtcOrCreate
\* (part_001:227-239), or part_001:175-178 with GetCtc (part_001:170-173).
MtPruneCall(t) ==
  /\ mt_pc[t] = "idle"
  /\ mt_calls[t] < MaxPrunes
  /\ mt_calls' = [mt_calls EXCEPT ![t] = @ + 1]
  /\ IF PruneAssertFails
     THEN /\ mt_pc' = [u \in MtThreads |-> "aborted"]
          /\ UNCHANGED << ctc_ready_, ctcs_, mt_made, mt_ctc, mt_used, mt_writes >>
     ELSE IF mt_variant = "eager" \/ CtcReady(t)
     THEN /\ mt_pc' = [mt_pc EXCEPT ![t] = "pruning"]
          /\ mt_ctc' = [mt_ctc EXCEPT ![t] = ctcs_[t]]
          /\ mt_used' = [mt_used EXCEPT ![t] = @ \cup {ctcs_[t]}]
          /\ UNCHANGED << ctc_ready_, ctcs_, mt_made, mt_writes >>
     ELSE /\ mt_made' = mt_made + 1
          /\ ctcs_' = [ctcs_ EXCEPT ![t] = mt_made + 1]
          /\ ctc_ready_' = [ctc_ready_ EXCEPT ![t] = 1]
          /\ mt_writes' = [mt_writes EXCEPT ![t] = Append(@, <<t, mt_calls[t] + 1>>)]
          /\ mt_pc' = [mt_pc EXCEPT ![t] = "pruning"]
          /\ mt_ctc' = [mt_ctc EXCEPT ![t] = mt_made + 1]
          /\ mt_used' = [mt_used EXCEPT ![t] = @ \cup {mt_made + 1}]
  /\ UNCHANGED << mt_variant, mt_asserts >>
  /\ UNCHANGED mt_frame

\* ctc->Prune(cs) returns (part_001:245, part_001:179).
MtPruneReturn(t) ==
  /\ mt_pc[t] = "pruning"
  /\ mt_pc' = [mt_pc EXCEPT ![t] = "idle"]
  /\ mt_ctc' = [mt_ctc EXCEPT ![t] = 0]
  /\ UNCHANGED << mt_variant, mt_asserts, ctc_ready_, ctcs_, mt_made, mt_calls,
                  mt_used, mt_writes >>
  /\ UNCHANGED mt_frame

MtPruneCalls == \E t \in MtThreads : MtPruneCall(t)

MtPruneReturns == \E t \in MtThreads : MtPruneReturn(t)

(***************************************************************************)
(* ContractorIbexPolytope::Prune (part_001:89-119).  ctc_->contract(iv) is *)
(* ibex's CtcPolytopeHull: it leaves iv as it is, narrows some of its      *)
(* intervals, or sets it empty; an empty iv stays empty.                   *)
(***************************************************************************)
\* The dimensions of the boxes given to the polytope contractor.
PolyDims == {1, 2}

\* The non-empty intervals of the grid 0 .. 2.
PolyIntervals == { <<a, b>> : a \in 0 .. 2, b \in 0 .. 2 } \ { <<2, 0>>, <<1, 0>>, <<2, 1>> }

\* formulas_ of the contractor, and a constraint of another contractor.
formulas_ == {"f1", "f2"}
OtherConstraints == {"g"}

\* An interval inside another one.
SubInterval(a, b) == b[1] <= a[1] /\ a[2] <= b[2]

\* part_001:94: the outcomes of ctc_->contract(iv).
Contract(iv) ==
  IF IsEmpty(iv) THEN { iv }
  ELSE { SetEmpty(iv) } \cup
       { b \in [PolyDims -> PolyIntervals] : \A i \in PolyDims : SubInterval(b[i], iv[i]) }

\* part_001:96-106: the dimensions added to the output and the flag changed.
PolyUpdateOutput(old_iv, iv) ==
  IF IsEmpty(iv)
  THEN [output |-> PolyDims, changed |-> TRUE]
  ELSE [output |-> { i \in PolyDims : old_iv[i] # iv[i] },
        changed |-> \E i \in PolyDims : old_iv[i] # iv[i]]

\* A ContractorStatus before the first call.
PolyInit ==
  /\ poly_cs \in [box : [PolyDims -> PolyIntervals] \cup { [i \in PolyDims |-> EmptyIv] },
                  output : SUBSET PolyDims,
                  used_constraints : SUBSET OtherConstraints]
  /\ poly_old = poly_cs
  /\ poly_calls = 0

\* No polytope contractor is in use.
PolyIdle ==
  /\ poly_cs = [box |-> [i \in PolyDims |-> EmptyIv], output |-> {},
                used_constraints |-> {}]
  /\ poly_old = poly_cs
  /\ poly_calls = MaxPolyCalls

\* part_001:89-119.
PolyPrune ==
  /\ poly_calls < MaxPolyCalls
  /\ \E iv \in Contract(poly_cs.box) :
       LET upd == PolyUpdateOutput(poly_cs.box, iv)
       IN  poly_cs' = [box |-> iv,
                       output |-> poly_cs.output \cup upd.output,
                       used_constraints |->
                         IF upd.changed THEN poly_cs.used_constraints \cup formulas_
                                        ELSE poly_cs.used_constraints]
  /\ poly_old' = poly_cs
  /\ poly_calls' = poly_calls + 1
  /\ UNCHANGED poly_frame

(***************************************************************************)
(* Symbolic expressions (dreal/symbolic/symbolic_expression_cell.cc, kept  *)
(* in src/scripts/run-clang-tidy.sh:30-1938).  A cell is a tuple whose     *)
(* first element is its kind; Add, Mul, Div, Pow, Min and Max are binary   *)
(* cells (BinaryExpressionCell), Abs stands for the unary function cells.  *)
(* Two expressions are EqualTo each other iff the tuples are equal.        *)
(* A double is a fraction <<n, d>> in lowest terms with d > 0; int is the  *)
(* range -IntMax - 1 .. IntMax.  An operation that throws returns an       *)
(* <<"Error", what>> tuple, which every caller passes on.                  *)
(***************************************************************************)
\* numeric_limits<int>::max(), scaled down.
IntMax == 7

AbsInt(n) == IF n < 0 THEN -n ELSE n

RECURSIVE Gcd(_, _)
Gcd(a, b) == IF b = 0 THEN a ELSE Gcd(b, a % b)

\* The fraction n / d (d # 0) in lowest terms.
Frac(n, d) ==
  LET g == Gcd(AbsInt(n), AbsInt(d))
      s == IF d < 0 THEN -1 ELSE 1
  IN  << (s * n) \div g, (s * d) \div g >>

FracAdd(v, w) == Frac(v[1] * w[2] + w[1] * v[2], v[2] * w[2])
FracMul(v, w) == Frac(v[1] * w[1], v[2] * w[2])
FracDiv(v, w) == Frac(v[1] * w[2], v[2] * w[1])
FracLess(v, w) == v[1] * w[2] < w[1] * v[2]

RECURSIVE FracPow(_, _)
FracPow(v, n) == IF n = 0 THEN <<1, 1>> ELSE FracMul(v, FracPow(v, n - 1))

\* run-clang-tidy.sh:74-83: v is in [int_min, int_max] and has no fractional part.
is_integer(v) ==
  /\ FracLess(<<-IntMax - 2, 1>>, v)
  /\ FracLess(v, <<IntMax + 1, 1>>)
  /\ v[2] = 1

\* run-clang-tidy.sh:85-87
is_non_negative_integer(v) == v[1] >= 0 /\ is_integer(v)

\* The cells: ExpressionVar, ExpressionConstant, ExpressionNaN and the others.
Var(v) == <<"Var", v>>
Constant(n, d) == <<"Constant", Frac(n, d)[1], Frac(n, d)[2]>>
ConstantOf(v) == <<"Constant", v[1], v[2]>>
NaN == <<"NaN">>
ExpressionAdd(e1, e2) == <<"Add", e1, e2>>
ExpressionMul(e1, e2) == <<"Mul", e1, e2>>
ExpressionDiv(e1, e2) == <<"Div", e1, e2>>
ExpressionPow(e1, e2) == <<"Pow", e1, e2>>
ExpressionAbs(e) == <<"Abs", e>>
ExpressionMin(e1, e2) == <<"Min", e1, e2>>
ExpressionMax(e1, e2) == <<"Max", e1, e2>>
ExpressionIfThenElse(f_cond, e_then, e_else) == <<"IfThenElse", f_cond, e_then, e_else>>
ExpressionUninterpretedFunction(name, variables) ==
  <<"UninterpretedFunction", name, variables>>

\* The formulas an if-then-else is built on: e1 > e2 and a Boolean variable.
FormulaGt(e1, e2) == <<"Gt", e1, e2>>
FormulaVar(b) == <<"FVar", b>>

\* What a throwing operation returns, and what Evaluate returns otherwise.
Error(what) == <<"Error", what>>
IsError(r) == r[1] = "Error"
Value(v) == <<"Value", v[1], v[2]>>

\* run-clang-tidy.sh:433-448: what each operation does at an ExpressionNaN.
NaNIgnored(during) == <<"Constant", 0, 1>>
NaNDetected(during) == Error("NaN is detected")

\* The variables: Boolean ones and the others (Variable::Type).
BooleanVariables == {"b"}
RealVariables == {"x", "y", "z"}
Variables == RealVariables \cup BooleanVariables

\* run-clang-tidy.sh:1666-1740 (is_constant, is_addition, ...) and the accessors.
get_kind(e) == e[1]
is_constant(e) == get_kind(e) = "Constant"
is_addition(e) == get_kind(e) = "Add"
is_binary(e) == get_kind(e) \in {"Add", "Mul", "Div", "Pow", "Min", "Max"}
get_constant_value(e) == <<e[2], e[3]>>
get_first_argument(e) == e[2]
get_second_argument(e) == e[3]
get_argument(e) == e[2]

\* GetVariables of each cell (run-clang-tidy.sh:192-194, 223-227, 267, 323, 419,
\* 1499-1504, 1586-1588) and GetFreeVariables of a formula.
RECURSIVE GetVariables(_)
GetFreeVariables(f) ==
  IF f[1] = "FVar" THEN { f[2] }
  ELSE GetVariables(f[2]) \cup GetVariables(f[3])

GetVariables(e) ==
  CASE get_kind(e) = "Var" -> { e[2] }
    [] get_kind(e) \in {"Constant", "NaN"} -> {}
    [] get_kind(e) = "Abs" -> GetVariables(get_argument(e))
    [] is_binary(e) ->
         GetVariables(get_first_argument(e)) \cup GetVariables(get_second_argument(e))
    [] get_kind(e) = "IfThenElse" ->
         GetFreeVariables(e[2]) \cup GetVariables(e[3]) \cup GetVariables(e[4])
    [] get_kind(e) = "UninterpretedFunction" -> e[3]

\* The is_polynomial flag each constructor stores (run-clang-tidy.sh:257, 319, 413,
\* 452-454, 498-500, 569-571, 805-806, 932-934, 1390-1391, 1438-1439, 1488-1497,
\* 1579-1584), with determine_polynomial (run-clang-tidy.sh:91-100) for Pow.
RECURSIVE is_polynomial(_)
PowAlwaysPolynomial(base, exponent) == TRUE
determine_polynomial(base, exponent) ==
  IF ~(is_polynomial(base) /\ is_constant(exponent)) THEN FALSE
  ELSE is_non_negative_integer(get_constant_value(exponent))

is_polynomial(e) ==
  CASE get_kind(e) \in {"Var", "Constant"} -> TRUE
    [] get_kind(e) \in {"Add", "Mul"} ->
         is_polynomial(get_first_argument(e)) /\ is_polynomial(get_second_argument(e))
    [] get_kind(e) = "Div" ->
         is_polynomial(get_first_argument(e)) /\ is_constant(get_second_argument(e))
    [] get_kind(e) = "Pow" ->
         determine_polynomial(get_first_argument(e), get_second_argument(e))
    [] OTHER -> FALSE

(***************************************************************************)
(* The operators of Expression (e1 + e2, e1 * e2, e1 / e2, pow, abs, min,  *)
(* max, if_then_else, uninterpreted_function).  They build a cell unless   *)
(* one of the identities 0 + e, 1 * e, 0 * e, e / 1, 0 / e, e ^ 0, e ^ 1   *)
(* applies or both operands are constants, which are folded.               *)
(***************************************************************************)
Zero == Constant(0, 1)
One == Constant(1, 1)

Plus(e1, e2) ==
  IF IsError(e1) THEN e1 ELSE IF IsError(e2) THEN e2
  ELSE IF e1 = Zero THEN e2
  ELSE IF e2 = Zero THEN e1
  ELSE IF is_constant(e1) /\ is_constant(e2)
       THEN ConstantOf(FracAdd(get_constant_value(e1), get_constant_value(e2)))
  ELSE ExpressionAdd(e1, e2)

Times(e1, e2) ==
  IF IsError(e1) THEN e1 ELSE IF IsError(e2) THEN e2
  ELSE IF e1 = One THEN e2
  ELSE IF e2 = One THEN e1
  ELSE IF e1 = Zero \/ e2 = Zero THEN Zero
  ELSE IF is_constant(e1) /\ is_constant(e2)
       THEN ConstantOf(FracMul(get_constant_value(e1), get_constant_value(e2)))
  ELSE ExpressionMul(e1, e2)

Divide(e1, e2) ==
  IF IsError(e1) THEN e1 ELSE IF IsError(e2) THEN e2
  ELSE IF e2 = One THEN e1
  ELSE IF is_constant(e1) /\ is_constant(e2)
       THEN IF e2 = Zero THEN Error("Division by zero")
            ELSE ConstantOf(FracDiv(get_constant_value(e1), get_constant_value(e2)))
  ELSE IF e1 = Zero THEN Zero
  ELSE ExpressionDiv(e1, e2)

Power(e1, e2) ==
  IF IsError(e1) THEN e1 ELSE IF IsError(e2) THEN e2
  ELSE IF e2 = Zero THEN One
  ELSE IF e2 = One THEN e1
  ELSE IF is_constant(e1) /\ is_constant(e2)
          /\ is_non_negative_integer(get_constant_value(e2))
       THEN ConstantOf(FracPow(get_constant_value(e1), get_constant_value(e2)[1]))
  ELSE ExpressionPow(e1, e2)

AbsOf(e) == IF IsError(e) THEN e ELSE ExpressionAbs(e)

MinOf(e1, e2) ==
  IF IsError(e1) THEN e1 ELSE IF IsError(e2) THEN e2 ELSE ExpressionMin(e1, e2)

MaxOf(e1, e2) ==
  IF IsError(e1) THEN e1 ELSE IF IsError(e2) THEN e2 ELSE ExpressionMax(e1, e2)

if_then_else(f_cond, e_then, e_else) ==
  IF IsError(f_cond) THEN f_cond
  ELSE IF IsError(e_then) THEN e_then
  ELSE IF IsError(e_else) THEN e_else
  ELSE ExpressionIfThenElse(f_cond, e_then, e_else)

uninterpreted_function(name, variables) ==
  ExpressionUninterpretedFunction(name, variables)

(***************************************************************************)
(* Expand (run-clang-tidy.sh:102-176, 297, 342, 437-439, 456-466, 502-506, *)
(* 596-716, 808-816, 947-957, 1393-1403, 1441-1451, 1542-1546, 1616-1618). *)
(***************************************************************************)
\* run-clang-tidy.sh:107-134.  e1 and e2 are expanded already.
ExpandMultiplication(e1, e2) ==
  IF IsError(e1) THEN e1 ELSE IF IsError(e2) THEN e2
  ELSE IF is_addition(e1)
  THEN LET e11 == get_first_argument(e1)
           e12 == get_second_argument(e1)
       IN  IF is_addition(e2)
           THEN LET e21 == get_first_argument(e2)
                    e22 == get_second_argument(e2)
                IN  Plus(Plus(Plus(Times(e11, e21), Times(e12, e21)), Times(e11, e22)),
                         Times(e12, e22))
           ELSE Plus(Times(e11, e2), Times(e12, e2))
  ELSE IF is_addition(e2)
  THEN LET e21 == get_first_argument(e2)
           e22 == get_second_argument(e2)
       IN  Plus(Times(e1, e21), Times(e1, e22))
  ELSE Times(e1, e2)

\* run-clang-tidy.sh:136-139
ExpandMultiplication3(e1, e2, e3) ==
  ExpandMultiplication(ExpandMultiplication(e1, e2), e3)

\* run-clang-tidy.sh:142-156: pow(base, n) for an int n >= 1.
RECURSIVE ExpandPowInt(_, _)
ExpandPowInt(base, n) ==
  IF n = 1 THEN base
  ELSE LET pow_half == ExpandPowInt(base, n \div 2)
       IN  IF n % 2 = 1 THEN ExpandMultiplication3(base, pow_half, pow_half)
           ELSE ExpandMultiplication(pow_half, pow_half)

\* run-clang-tidy.sh:160-176
ExpandPow(base, exponent) ==
  IF ~is_addition(base) \/ ~is_constant(exponent) THEN Power(base, exponent)
  ELSE LET e == get_constant_value(exponent)
       IN  IF e[1] <= 0 \/ ~is_integer(e) THEN Power(base, exponent)
           ELSE ExpandPowInt(base, e[1])

\* run-clang-tidy.sh:596-703: DivExpandVisitor::Simplify(e, n), n a double.
RECURSIVE Simplify(_, _)
Simplify(e, n) ==
  CASE get_kind(e) = "Add" ->
         Plus(Divide(get_first_argument(e), ConstantOf(n)),
              Divide(get_second_argument(e), ConstantOf(n)))
    [] get_kind(e) = "Mul" ->
         Times(Divide(get_first_argument(e), ConstantOf(n)), get_second_argument(e))
    [] get_kind(e) = "Div" ->
         IF is_constant(get_second_argument(e))
         THEN Simplify(get_first_argument(e),
                       FracMul(get_constant_value(get_second_argument(e)), n))
         ELSE Divide(Simplify(get_first_argument(e), n), get_second_argument(e))
    [] get_kind(e) = "NaN" -> Error("NaN is detected")
    [] OTHER -> Divide(e, ConstantOf(n))

RECURSIVE Expand(_)
\* The Expand of a binary cell other than Mul and Div, op being the operator that
\* rebuilds it (run-clang-tidy.sh:456-466, 947-957, 1393-1403, 1441-1451).
ExpandBinary(e, arg1_expanded, arg2_expanded, rebuilt) ==
  IF IsError(arg1_expanded) THEN arg1_expanded
  ELSE IF IsError(arg2_expanded) THEN arg2_expanded
  ELSE IF get_first_argument(e) # arg1_expanded \/ get_second_argument(e) # arg2_expanded
       THEN rebuilt
       ELSE e

Expand(e) ==
  CASE get_kind(e) \in {"Var", "Constant", "UninterpretedFunction"} -> e
    [] get_kind(e) = "NaN" -> NaNDetected("expansion")
    [] get_kind(e) = "IfThenElse" -> Error("Not yet implemented.")
    [] get_kind(e) = "Add" ->
         LET a1 == Expand(get_first_argument(e))
             a2 == Expand(get_second_argument(e))
         IN  ExpandBinary(e, a1, a2, Plus(a1, a2))
    [] get_kind(e) = "Mul" ->
         ExpandMultiplication(Expand(get_first_argument(e)),
                              Expand(get_second_argument(e)))
    [] get_kind(e) = "Div" ->
         LET e1 == Expand(get_first_argument(e))
             e2 == Expand(get_second_argument(e))
         IN  IF IsError(e1) THEN e1 ELSE IF IsError(e2) THEN e2
             ELSE IF is_constant(e2) THEN Simplify(e1, get_constant_value(e2))
             ELSE e
    [] get_kind(e) = "Pow" ->
         LET a1 == Expand(get_first_argument(e))
             a2 == Expand(get_second_argument(e))
         IN  ExpandBinary(e, a1, a2, ExpandPow(a1, a2))
    [] get_kind(e) = "Min" ->
         LET a1 == Expand(get_first_argument(e))
             a2 == Expand(get_second_argument(e))
         IN  ExpandBinary(e, a1, a2, MinOf(a1, a2))
    [] get_kind(e) = "Max" ->
         LET a1 == Expand(get_first_argument(e))
             a2 == Expand(get_second_argument(e))
         IN  ExpandBinary(e, a1, a2, MaxOf(a1, a2))
    [] get_kind(e) = "Abs" ->
         LET a == Expand(get_argument(e))
         IN  IF IsError(a) THEN a
             ELSE IF get_argument(e) # a THEN AbsOf(a) ELSE e

(***************************************************************************)
(* Substitute (run-clang-tidy.sh:299-307, 344-348, 441-444, 468-480,       *)
(* 508-520, 718-732, 818-828, 959-971, 1405-1417, 1453-1465, 1548-1560,    *)
(* 1620-1644).  expr_subst and formula_subst are functions on the          *)
(* variables they replace.                                                 *)
(***************************************************************************)
RECURSIVE Substitute(_, _, _)
\* Formula::Substitute
FormulaSubstitute(f, expr_subst, formula_subst) ==
  IF f[1] = "FVar"
  THEN IF f[2] \in DOMAIN formula_subst THEN formula_subst[f[2]] ELSE f
  ELSE LET e1 == Substitute(f[2], expr_subst, formula_subst)
           e2 == Substitute(f[3], expr_subst, formula_subst)
       IN  IF IsError(e1) THEN e1 ELSE IF IsError(e2) THEN e2 ELSE FormulaGt(e1, e2)

\* run-clang-tidy.sh:1631-1643: the variables of the substituted function.
UfNoVars(variables, expr_subst, formula_subst) == {}
UfNewVars(variables, expr_subst, formula_subst) ==
  UNION { IF var \in BooleanVariables
          THEN IF var \in DOMAIN formula_subst
               THEN GetFreeVariables(formula_subst[var]) ELSE {}
          ELSE IF var \in DOMAIN expr_subst
               THEN GetVariables(expr_subst[var]) ELSE {} : var \in variables }

\* The Substitute of a binary cell (the same code for each of them).
SubstituteBinary(e, arg1_subst, arg2_subst, rebuilt) ==
  IF IsError(arg1_subst) THEN arg1_subst
  ELSE IF IsError(arg2_subst) THEN arg2_subst
  ELSE IF get_first_argument(e) # arg1_subst \/ get_second_argument(e) # arg2_subst
       THEN rebuilt
       ELSE e

Substitute(e, expr_subst, formula_subst) ==
  CASE get_kind(e) = "Var" ->
         IF e[2] \in DOMAIN expr_subst THEN expr_subst[e[2]] ELSE e
    [] get_kind(e) = "Constant" -> e
    [] get_kind(e) = "NaN" -> NaNDetected("substitution")
    [] is_binary(e) ->
         LET a1 == Substitute(get_first_argument(e), expr_subst, formula_subst)
             a2 == Substitute(get_second_argument(e), expr_subst, formula_subst)
         IN  SubstituteBinary(e, a1, a2,
               CASE get_kind(e) = "Add" -> Plus(a1, a2)
                 [] get_kind(e) = "Mul" -> Times(a1, a2)
                 [] get_kind(e) = "Div" -> Divide(a1, a2)
                 [] get_kind(e) = "Pow" -> Power(a1, a2)
                 [] get_kind(e) = "Min" -> MinOf(a1, a2)
                 [] get_kind(e) = "Max" -> MaxOf(a1, a2))
    [] get_kind(e) = "Abs" ->
         LET a == Substitute(get_argument(e), expr_subst, formula_subst)
         IN  IF IsError(a) THEN a
             ELSE IF get_argument(e) # a THEN AbsOf(a) ELSE e
    [] get_kind(e) = "IfThenElse" ->
         LET f_cond_subst == FormulaSubstitute(e[2], expr_subst, formula_subst)
             e_then_subst == Substitute(e[3], expr_subst, formula_subst)
             e_else_subst == Substitute(e[4], expr_subst, formula_subst)
         IN  IF IsError(f_cond_subst) THEN f_cond_subst
             ELSE IF IsError(e_then_subst) THEN e_then_subst
             ELSE IF IsError(e_else_subst) THEN e_else_subst
             ELSE IF e[2] # f_cond_subst \/ e[3] # e_then_subst \/ e[4] # e_else_subst
                  THEN if_then_else(f_cond_subst, e_then_subst, e_else_subst)
                  ELSE e
    [] get_kind(e) = "UninterpretedFunction" ->
         uninterpreted_function(e[2], UfNewVars(e[3], expr_subst, formula_subst))

(***************************************************************************)
(* Differentiate of the cells without Div and Pow (run-clang-tidy.sh:      *)
(* 309-314, 350-352, 446-448, 482-487, 522-527, 830-838, 1419-1427,        *)
(* 1467-1475, 1562-1570, 1646-1660).                                       *)
(***************************************************************************)
\* The error of the cells that have no derivative.
NotDifferentiable == Error("is not differentiable")

\* run-clang-tidy.sh:831-837 and its copies: the cell with variables vs.
DifferentiateAlwaysZero(vs, x) == Zero
DifferentiateOpaque(vs, x) == IF x \in vs THEN NotDifferentiable ELSE Zero

RECURSIVE Differentiate(_, _)
Differentiate(e, x) ==
  CASE get_kind(e) = "Var" -> IF x = e[2] THEN One ELSE Zero
    [] get_kind(e) = "Constant" -> Zero
    [] get_kind(e) = "NaN" -> NaNDetected("differentiation")
    [] get_kind(e) = "Add" ->
         Plus(Differentiate(get_first_argument(e), x),
              Differentiate(get_second_argument(e), x))
    [] get_kind(e) = "Mul" ->
         LET f == get_first_argument(e)
             g == get_second_argument(e)
         IN  Plus(Times(Differentiate(f, x), g), Times(f, Differentiate(g, x)))
    [] get_kind(e) \in {"Abs", "Min", "Max", "IfThenElse"} ->
         DifferentiateOpaque(GetVariables(e), x)
    [] get_kind(e) = "UninterpretedFunction" -> DifferentiateOpaque(e[3], x)

(***************************************************************************)
(* Evaluate (run-clang-tidy.sh:210-213, 250-254, 283-295, 337-340,         *)
(* 433-435, 494-496, 541-543, 746-754, 844, 982-985, 1434-1436, 1482-1484, *)
(* 1535-1540, 1612-1614).  env is a function on the variables it binds.    *)
(***************************************************************************)
\* DoEvaluate of the binary cells; std::pow for an integer exponent >= 0.
DoEvaluate(kind, v1, v2) ==
  CASE kind = "Add" -> Value(FracAdd(v1, v2))
    [] kind = "Mul" -> Value(FracMul(v1, v2))
    [] kind = "Div" -> IF v2[1] = 0 THEN Error("Division by zero")
                       ELSE Value(FracDiv(v1, v2))
    [] kind = "Pow" /\ v2[2] = 1 /\ v2[1] >= 0 -> Value(FracPow(v1, v2[1]))
    [] kind = "Min" -> IF FracLess(v2, v1) THEN Value(v2) ELSE Value(v1)
    [] kind = "Max" -> IF FracLess(v1, v2) THEN Value(v2) ELSE Value(v1)

ValueOf(r) == <<r[2], r[3]>>

\* run-clang-tidy.sh:1536-1539: the branch an if-then-else evaluates.
SelectElse(cond, e_then, e_else) == e_else
SelectBranch(cond, e_then, e_else) == IF cond THEN e_then ELSE e_else

RECURSIVE Evaluate(_, _)
\* Formula::Evaluate: "true", "false" or an error.
EvaluateFormula(f, env) ==
  IF f[1] = "FVar"
  THEN IF f[2] \in DOMAIN env THEN <<"Bool", env[f[2]]>> ELSE Error("no entry")
  ELSE LET r1 == Evaluate(f[2], env)
           r2 == Evaluate(f[3], env)
       IN  IF IsError(r1) THEN r1 ELSE IF IsError(r2) THEN r2
           ELSE <<"Bool", FracLess(ValueOf(r2), ValueOf(r1))>>

Evaluate(e, env) ==
  CASE get_kind(e) = "Var" ->
         IF e[2] \in DOMAIN env THEN Value(env[e[2]]) ELSE Error("no entry")
    [] get_kind(e) = "Constant" -> Value(get_constant_value(e))
    [] get_kind(e) = "NaN" -> NaNDetected("Symbolic computation")
    [] is_binary(e) ->
         LET r1 == Evaluate(get_first_argument(e), env)
             r2 == Evaluate(get_second_argument(e), env)
         IN  IF IsError(r1) THEN r1 ELSE IF IsError(r2) THEN r2
             ELSE DoEvaluate(get_kind(e), ValueOf(r1), ValueOf(r2))
    [] get_kind(e) = "Abs" ->
         LET r == Evaluate(get_argument(e), env)
         IN  IF IsError(r) THEN r
             ELSE Value(<<AbsInt(r[2]), r[3]>>)
    [] get_kind(e) = "IfThenElse" ->
         LET c == EvaluateFormula(e[2], env)
         IN  IF IsError(c) THEN c
             ELSE Evaluate(SelectBranch(c[2], e[3], e[4]), env)
    [] get_kind(e) = "UninterpretedFunction" ->
         Error("Uninterpreted-function expression cannot be evaluated.")

(***************************************************************************)
(* The expressions, substitutions and environments the operations are run  *)
(* on.  Every expression is built with the operators above, as a program   *)
(* builds it.                                                              *)
(***************************************************************************)
Atoms == { Var("x"), Var("y"), Constant(2, 1), Constant(3, 1) }

\* a + b
Sums == { Plus(a, b) : a, b \in Atoms }

\* (a + b) + c and a + (b + c)
NestedSums ==
  { Plus(s, a) : s \in { Plus(Var("x"), Var("y")), Plus(Var("x"), Constant(2, 1)) },
                 a \in Atoms }
  \cup { Plus(a, Plus(Var("x"), Var("y"))) : a \in Atoms }

\* Products of sums, of nested sums, and of such products.
Products ==
  { Times(a, b) : a, b \in Sums \cup { Var("x"), Constant(2, 1) } }
  \cup { Times(s, a) : s \in NestedSums, a \in { Var("x"), Var("z") } }
  \cup { Times(a, s) : s \in NestedSums, a \in { Var("x"), Var("z") } }

\* Quotients by a constant, by a variable, and quotients of quotients.
Divisors == { Constant(2, 1), Constant(3, 1), Var("z") }
Quotients ==
  LET firsts == { Divide(s, k) :
                    s \in Sums \cup NestedSums
                          \cup { Times(Plus(Var("x"), Var("y")), Var("z")) },
                    k \in Divisors }
  IN  firsts \cup { Divide(q, k) :
                      q \in { Divide(Plus(Var("x"), Var("y")), d) : d \in Divisors },
                      k \in Divisors }

\* Powers of sums and of products of sums.
Exponents == { Constant(2, 1), Constant(3, 1), Constant(4, 1), Constant(1, 2),
               Constant(-1, 1), Constant(IntMax + 1, 1), Var("z") }
Powers ==
  { Power(s, n) :
      s \in { Plus(Var("x"), Var("y")), Plus(Var("x"), Constant(2, 1)),
              Plus(Plus(Var("x"), Var("y")), Var("z")),
              Times(Plus(Var("x"), Var("y")), Var("z")),
              Times(Constant(2, 1), Plus(Var("x"), Var("y"))),
              Var("x") },
      n \in Exponents }

\* The cells that have no derivative.
Conditions == { FormulaGt(Var("x"), Zero), FormulaGt(Var("y"), Zero), FormulaVar("b") }
Ite02 ==
  if_then_else(FormulaGt(Var("x"), Zero),
               if_then_else(FormulaGt(Var("y"), Zero), Constant(1, 1), Constant(2, 1)),
               if_then_else(FormulaGt(Var("y"), Zero), Constant(3, 1), Constant(4, 1)))
Branches ==
  { Constant(1, 1), Constant(2, 1), Var("y"), NaN,
    Divide(Var("x"), Zero),
    uninterpreted_function("uf", { "x" }),
    if_then_else(FormulaGt(Var("y"), Zero), Constant(1, 1), Constant(2, 1)),
    if_then_else(FormulaGt(Var("y"), Zero), Constant(3, 1), NaN) }
Opaques ==
  { AbsOf(a) : a \in { Var("x"), Plus(Var("x"), Var("y")),
                       Times(Plus(Var("x"), Var("y")), Var("z")) } }
  \cup { MinOf(Var("x"), a) : a \in { Var("y"), Constant(2, 1),
                                      Times(Plus(Var("x"), Var("y")), Var("z")) } }
  \cup { MaxOf(a, Var("y")) : a \in { Var("x"), Constant(2, 1),
                                      Times(Plus(Var("x"), Var("y")), Var("z")) } }
  \cup { uninterpreted_function("uf", vs) : vs \in SUBSET { "x", "y", "b" } }
  \cup { if_then_else(c, t, e) : c \in Conditions, t, e \in Branches }
  \cup { Ite02 }

\* Expressions with a NaN cell in them.
WithNaN ==
  { NaN, Plus(NaN, Var("x")), Plus(Var("x"), NaN), Times(NaN, Var("x")),
    Times(Var("x"), NaN), Divide(NaN, Constant(2, 1)), Divide(Var("x"), NaN),
    Power(NaN, Constant(2, 1)), Power(Var("x"), NaN), AbsOf(NaN),
    MinOf(Var("x"), NaN), MaxOf(NaN, Var("x")),
    Plus(AbsOf(NaN), Var("x")),
    Times(Plus(Var("x"), Var("y")), Plus(NaN, Var("x"))),
    if_then_else(FormulaGt(NaN, Zero), Var("x"), Var("y")) }

SymInputs ==
  Atoms \cup Sums \cup NestedSums \cup Products \cup Quotients \cup Powers
        \cup Opaques \cup WithNaN

\* The second operand a cell is constructed with.
Operands ==
  Atoms \cup Exponents \cup { Zero, One, NaN, Plus(Var("x"), Var("y")), AbsOf(Var("x")) }

\* The substitution that sends every variable to itself, and others.
IdentitySubstitution ==
  [expr |-> [v \in RealVariables |-> Var(v)],
   formula |-> [b \in BooleanVariables |-> FormulaVar(b)]]
Substitutions ==
  { IdentitySubstitution,
    [expr |-> << >>, formula |-> << >>],
    [expr |-> [v \in { "x" } |-> Plus(Var("y"), Var("z"))], formula |-> << >>],
    [expr |-> [v \in { "x", "y" } |-> Constant(2, 1)],
     formula |-> [b \in { "b" } |-> FormulaGt(Var("x"), Zero)]] }

\* The environments: x = 10, y = -10 (ite_02.smt2:4-5) and others.
Environments ==
  { [v \in Variables |-> CASE v = "x" -> <<10, 1>> [] v = "y" -> <<-10, 1>>
                           [] v = "z" -> <<1, 1>> [] v = "b" -> TRUE],
    [v \in Variables |-> CASE v = "x" -> <<2, 1>> [] v = "y" -> <<3, 1>>
                           [] v = "z" -> <<0, 1>> [] v = "b" -> FALSE],
    [v \in { "x", "b" } |-> CASE v = "x" -> <<-1, 2>> [] v = "b" -> TRUE] }

\* Some cell of e is a NaN.
RECURSIVE HasNaN(_)
HasNaN(e) ==
  CASE get_kind(e) = "NaN" -> TRUE
    [] get_kind(e) = "Abs" -> HasNaN(get_argument(e))
    [] is_binary(e) -> HasNaN(get_first_argument(e)) \/ HasNaN(get_second_argument(e))
    [] get_kind(e) = "IfThenElse" ->
         \/ (e[2][1] = "Gt" /\ (HasNaN(e[2][2]) \/ HasNaN(e[2][3])))
         \/ HasNaN(e[3]) \/ HasNaN(e[4])
    [] OTHER -> FALSE

\* Differentiate of e stays within the cells modelled above.
RECURSIVE WithoutDivPow(_)
WithoutDivPow(e) ==
  CASE get_kind(e) \in {"Add", "Mul"} ->
         WithoutDivPow(get_first_argument(e)) /\ WithoutDivPow(get_second_argument(e))
    [] get_kind(e) \in {"Div", "Pow"} -> FALSE
    [] OTHER -> TRUE

\* Every power in e has a constant integer exponent >= 0, so that std::pow is exact.
RECURSIVE IntegralPowers(_)
IntegralPowers(e) ==
  CASE get_kind(e) = "Pow" ->
         /\ is_constant(get_second_argument(e))
         /\ is_non_negative_integer(get_constant_value(get_second_argument(e)))
         /\ IntegralPowers(get_first_argument(e))
    [] get_kind(e) = "Abs" -> IntegralPowers(get_argument(e))
    [] is_binary(e) ->
         IntegralPowers(get_first_argument(e)) /\ IntegralPowers(get_second_argument(e))
    [] get_kind(e) = "IfThenElse" -> IntegralPowers(e[3]) /\ IntegralPowers(e[4])
    [] OTHER -> TRUE

None == <<"None">>

\* An expression, before any operation is applied to it.
SymInit ==
  /\ sym_e \in SymInputs
  /\ sym_op = "none"
  /\ sym_e2 = None
  /\ sym_x = "x"
  /\ sym_subst = [expr |-> << >>, formula |-> << >>]
  /\ sym_env = << >>
  /\ sym_out = None
  /\ sym_prev = None

\* No expression is in use.
SymIdle ==
  /\ sym_e = None
  /\ sym_op = "idle"
  /\ sym_e2 = None
  /\ sym_x = "x"
  /\ sym_subst = [expr |-> << >>, formula |-> << >>]
  /\ sym_env = << >>
  /\ sym_out = None
  /\ sym_prev = None

\* e.Expand()
SymExpand ==
  /\ sym_op = "none"
  /\ sym_op' = "Expand"
  /\ sym_out' = Expand(sym_e)
  /\ UNCHANGED << sym_e, sym_e2, sym_x, sym_subst, sym_env, sym_prev >>
  /\ UNCHANGED sym_frame

\* e.Expand().Expand()
SymExpandAgain ==
  /\ sym_op = "Expand"
  /\ ~IsError(sym_out)
  /\ sym_op' = "ExpandAgain"
  /\ sym_prev' = sym_out
  /\ sym_out' = Expand(sym_out)
  /\ UNCHANGED << sym_e, sym_e2, sym_x, sym_subst, sym_env >>
  /\ UNCHANGED sym_frame

\* e.Substitute(expr_subst, formula_subst)
SymSubstitute ==
  /\ sym_op = "none"
  /\ sym_op' = "Substitute"
  /\ \E s \in Substitutions :
       /\ sym_subst' = s
       /\ sym_out' = Substitute(sym_e, s.expr, s.formula)
  /\ UNCHANGED << sym_e, sym_e2, sym_x, sym_env, sym_prev >>
  /\ UNCHANGED sym_frame

\* e.Differentiate(x)
SymDifferentiate ==
  /\ sym_op = "none"
  /\ WithoutDivPow(sym_e)
  /\ sym_op' = "Differentiate"
  /\ \E x \in Variables :
       /\ sym_x' = x
       /\ sym_out' = Differentiate(sym_e, x)
  /\ UNCHANGED << sym_e, sym_e2, sym_subst, sym_env, sym_prev >>
  /\ UNCHANGED sym_frame

\* e.Evaluate(env)
SymEvaluate ==
  /\ sym_op = "none"
  /\ IntegralPowers(sym_e)
  /\ sym_op' = "Evaluate"
  /\ \E env \in Environments :
       /\ sym_env' = env
       /\ sym_out' = Evaluate(sym_e, env)
  /\ UNCHANGED << sym_e, sym_e2, sym_x, sym_subst, sym_prev >>
  /\ UNCHANGED sym_frame

\* The constructors ExpressionAdd, ExpressionMul, ExpressionDiv and ExpressionPow
\* (run-clang-tidy.sh:452-454, 498-500, 569-571, 932-934) on e and a second operand.
SymConstruct ==
  /\ sym_op = "none"
  /\ \E kind \in {"Add", "Mul", "Div", "Pow"}, e2 \in Operands :
       /\ sym_op' = kind
       /\ sym_e2' = e2
       /\ sym_out' = <<kind, sym_e, e2>>
  /\ UNCHANGED << sym_e, sym_x, sym_subst, sym_env, sym_prev >>
  /\ UNCHANGED sym_frame

(***************************************************************************)
(* Icp::EvaluateBox run on its own (icp.cc:85-127).                        *)
(***************************************************************************)
\* The boxes EvaluateBox is given: the non-empty boxes of the grid.
EvalBoxes ==
  { box \in [1 .. 2 -> (0 .. MaxWidth) \X (0 .. MaxWidth)] :
      ~IsEmpty(box) /\ box[2][2] <= 2 }

\* Nothing has been returned yet.
NotReturned == [pc |-> "call", none |-> FALSE, cand |-> {}, evaluated |-> 0]

EvalInit ==
  /\ ev_fs \in FormulaLists
  /\ ev_precision \in Precisions
  /\ ev_cs \in [box : EvalBoxes, used_constraints : SUBSET {1, 2}]
  /\ ev_old = ev_cs
  /\ ev_out = NotReturned

\* EvaluateBox is not run.
EvalIdle ==
  /\ ev_fs = << >>
  /\ ev_precision = 0
  /\ ev_cs = [box |-> << <<0, 0>>, <<0, 0>> >>, used_constraints |-> {}]
  /\ ev_old = ev_cs
  /\ ev_out = [NotReturned EXCEPT !.pc = "done"]

\* icp.cc:85-127: the whole call; on UNSAT the box of cs is set empty and the
\* formula is added to used_constraints (icp.cc:98-100).
EvaluateBoxCall ==
  /\ ev_out.pc = "call"
  /\ LET r == EvaluateBox(ev_fs, ev_cs.box, ev_precision)
     IN  /\ ev_cs' = IF r.none THEN MarkUnsat(ev_cs, r.used) ELSE ev_cs
         /\ ev_out' = [pc |-> "done", none |-> r.none, cand |-> r.cand,
                       evaluated |-> r.evaluated]
  /\ ev_old' = ev_cs
  /\ UNCHANGED << ev_fs, ev_precision >>
  /\ UNCHANGED eval_frame

(***************************************************************************)
(* JoiningThread (joining_thread.h, part_004:8-31): a std::thread that is  *)
(* joined by the destructor.  std::thread is as the C++ standard defines   *)
(* it: a thread object that owns a thread is joinable; move-assigning to a *)
(* joinable thread object calls std::terminate.                            *)
(***************************************************************************)
\* The JoiningThread objects (storage for three of them).
JtObjects == 1 .. 3

\* The threads ever started, numbered from 1.
JtThreads == 1 .. MaxThreads

JtInit ==
  /\ jt_alive = {}
  /\ t_ = [o \in JtObjects |-> 0]
  /\ jt_started = 0
  /\ jt_joins = [th \in JtThreads |-> 0]
  /\ jt_terminated = FALSE

\* No JoiningThread is in use: every thread was started, joined and released.
JtIdle ==
  /\ jt_alive = {}
  /\ t_ = [o \in JtObjects |-> 0]
  /\ jt_started = MaxThreads
  /\ jt_joins = [th \in JtThreads |-> 1]
  /\ jt_terminated = FALSE

\* part_004:10-12: JoiningThread(f, args...) starts a thread.
JtConstruct(o) ==
  /\ ~jt_terminated
  /\ o \notin jt_alive
  /\ jt_started < MaxThreads
  /\ jt_started' = jt_started + 1
  /\ t_' = [t_ EXCEPT ![o] = jt_started + 1]
  /\ jt_alive' = jt_alive \cup {o}
  /\ UNCHANGED << jt_joins, jt_terminated >>
  /\ UNCHANGED jt_frame

\* part_004:14: JoiningThread(JoiningThread&& jt): t_ takes what jt.t_ owns.
JtMoveConstruct(o, jt) ==
  /\ ~jt_terminated
  /\ o \notin jt_alive
  /\ jt \in jt_alive
  /\ t_' = [t_ EXCEPT ![o] = t_[jt], ![jt] = 0]
  /\ jt_alive' = jt_alive \cup {o}
  /\ UNCHANGED << jt_started, jt_joins, jt_terminated >>
  /\ UNCHANGED jt_frame

\* t_ = std::move(jt.t_) (part_004:26): std::thread::operator=(thread&&) calls
\* std::terminate when t_ is joinable, and otherwise takes what jt.t_ owns.
ThreadMoveAssign(o, jt) ==
  IF t_[o] # 0
  THEN /\ jt_terminated' = TRUE
       /\ UNCHANGED << t_, jt_joins >>
  ELSE /\ t_' = [t_ EXCEPT ![o] = t_[jt], ![jt] = 0]
       /\ UNCHANGED << jt_joins, jt_terminated >>

\* part_004:25-28: operator=(JoiningThread&& jt).
JtMoveAssign(o, jt) ==
  /\ ~jt_terminated
  /\ o \in jt_alive
  /\ jt \in jt_alive
  /\ o # jt
  /\ ThreadMoveAssign(o, jt)
  /\ UNCHANGED << jt_alive, jt_started >>
  /\ UNCHANGED jt_frame

\* part_004:16-20: ~JoiningThread() joins t_ when it is joinable; t_ is then
\* destroyed not joinable.
JtDestroy(o) ==
  /\ ~jt_terminated
  /\ o \in jt_alive
  /\ jt_joins' = IF t_[o] # 0 THEN [jt_joins EXCEPT ![t_[o]] = @ + 1] ELSE jt_joins
  /\ t_' = [t_ EXCEPT ![o] = 0]
  /\ jt_alive' = jt_alive \ {o}
  /\ UNCHANGED << jt_started, jt_terminated >>
  /\ UNCHANGED jt_frame

(***************************************************************************)
(* The components run on their own.                                        *)
(***************************************************************************)
FillSpecInit == FillInit /\ IcpIdle /\ MtIdle /\ PolyIdle /\ SymIdle /\ EvalIdle /\ JtIdle

FillNext == FillUpPass \/ FillUpReturn

FillSpec == FillSpecInit /\ [][FillNext]_vars

MtSpecInit == MtInit /\ IcpIdle /\ FillIdle /\ PolyIdle /\ SymIdle /\ EvalIdle /\ JtIdle

MtNext == MtPruneCalls \/ MtPruneReturns

MtSpec == MtSpecInit /\ [][MtNext]_vars

PolySpecInit == PolyInit /\ IcpIdle /\ FillIdle /\ MtIdle /\ SymIdle /\ EvalIdle /\ JtIdle

PolyNext == PolyPrune

PolySpec == PolySpecInit /\ [][PolyNext]_vars

SymSpecInit == SymInit /\ IcpIdle /\ FillIdle /\ MtIdle /\ PolyIdle /\ EvalIdle /\ JtIdle

SymNext ==
  \/ SymExpand
  \/ SymExpandAgain
  \/ SymSubstitute
  \/ SymDifferentiate
  \/ SymEvaluate
  \/ SymConstruct

SymSpec == SymSpecInit /\ [][SymNext]_vars

EvalSpecInit == EvalInit /\ IcpIdle /\ FillIdle /\ MtIdle /\ PolyIdle /\ SymIdle /\ JtIdle

EvalNext == EvaluateBoxCall

EvalSpec == EvalSpecInit /\ [][EvalNext]_vars

JtSpecInit == JtInit /\ IcpIdle /\ FillIdle /\ MtIdle /\ PolyIdle /\ SymIdle /\ EvalIdle

JtNext ==
  \/ \E o \in JtObjects : JtConstruct(o)
  \/ \E o, jt \in JtObjects : JtMoveConstruct(o, jt)
  \/ \E o, jt \in JtObjects : JtMoveAssign(o, jt)
  \/ \E o \in JtObjects : JtDestroy(o)

JtSpec == JtSpecInit /\ [][JtNext]_vars

(***************************************************************************)
(* Both engines are run on the same problem, the sequential one first.     *)
(***************************************************************************)
Init == ProblemInit /\ SeqInit /\ ParInit /\ FillIdle /\ MtIdle /\ PolyIdle /\ SymIdle /\ EvalIdle /\ JtIdle

Next ==
  \/ SeqStart
  \/ SeqPop
  \/ SeqReturnFalse
  \/ SeqPrune
  \/ SeqEvaluate
  \/ SeqBranchMaxDiam
  \/ SeqBranchGradientDescent
  \/ ParStart
  \/ ParSeedPush
  \/ ParSeedCount
  \/ ParSpawn
  \/ Sigint
  \/ \E w \in Workers : WTestFound(w)
  \/ \E w \in Workers : WTestCount(w)
  \/ \E w \in Workers : WInterrupt(w)
  \/ \E w \in Workers : WPop(w)
  \/ \E w \in Workers : WProcess(w)
  \/ \E w \in Workers : WPush(w)
  \/ \E w \in Workers : WDangling(w)
  \/ ParRethrow
  \/ ParReturnTrue
  \/ ParReturnFalse

Spec == Init /\ [][Next]_vars

(***************************************************************************)
(* Properties.                                                             *)
(***************************************************************************)
\* Some assignment of Box0 satisfies every formula.
HasSolution == \E p \in PointsOf(box0) : SatisfiesAll(p, formula_evaluators)

\* C1: when either engine returns false, no point of Box0 satisfies all the
\* formulas and what the search discarded covers all of Box0, whatever the
\* interleaving of the workers and the boxes FillUp seeded.
C1_UnsatSound ==
  /\ seq_ret = "false" => ~HasSolution /\ PointsOf(box0) \subseteq seq_hist.examined
  /\ par_ret = "false" => ~HasSolution /\ PointsOf(box0) \subseteq par_hist.examined

\* C2: on the same input the sequential and the parallel engine return the
\* same verdict, both false or both true.
C2_SameVerdict ==
  (seq_ret \in {"true", "false"} /\ par_ret \in {"true", "false"}) => seq_ret = par_ret

\* The search stops at `box`: EvaluateBox returns an empty candidate set, or no
\* candidate is a branching point.
IsDeltaSatBox(box) ==
  LET r == EvaluateBox(formula_evaluators, box, config.precision)
  IN  /\ ~IsEmpty(box)
      /\ ~r.none
      /\ (r.cand = {} \/ FindMaxDiam(box, r.cand) < 0)

\* C3: when the parallel engine returns true, the caller's box is the box of the
\* worker whose id is in found_delta_sat, as that worker left it when it found
\* it, and the search stops at that box; also when several workers find a box.
C3_ReturnsFinderBox ==
  par_ret = "true" =>
    /\ found_delta_sat \in Workers
    /\ par_cs.box = status_vector_[found_delta_sat].box
    /\ [id |-> found_delta_sat, box |-> par_cs.box] \in par_hist.finders
    /\ IsDeltaSatBox(par_cs.box)

\* The parallel engine returned true after two workers found different boxes.
C3_Witness ==
  /\ par_ret = "true"
  /\ \E f, g \in par_hist.finders : f.id # g.id /\ f.box # g.box

\* The initial Prune of the parallel engine empties the box.
InitialPruneEmpties ==
  /\ ~PruneRaises(contractor, box0)
  /\ IsEmpty(Prune(contractor, formula_evaluators, box0))

\* The workers were started and every one has left its loop and returned.
EveryWorkerLeft ==
  /\ status_vector_ # <<>>
  /\ \A w \in Workers : w_pc[w] = "returned"

\* C4: the parallel engine returns false exactly when the initial Prune empties
\* the box or every worker leaves its loop with found_delta_sat still -1, and
\* then the caller's box is empty on return.
C4_FalseExactlyWhen ==
  par_pc = "done" =>
    /\ par_ret = "false" <=>
         (InitialPruneEmpties \/ (EveryWorkerLeft /\ found_delta_sat = -1))
    /\ par_ret = "false" => IsEmpty(par_cs.box)

\* The parallel engine returned false after its workers discarded several boxes.
C4_Witness ==
  /\ par_ret = "false"
  /\ ~InitialPruneEmpties
  /\ Cardinality(par_hist.finished) >= 3
  /\ IsEmpty(par_cs.box)

\* The shared stack is empty and no worker is in the middle of an iteration
\* holding a box it has not yet discarded.
NoBoxInFlight == global_stack = <<>> /\ \A w \in Workers : ~Holding(w)

\* C5 as stated, read for the states in which the workers run: number_of_boxes
\* is 0 exactly when the shared stack is empty and no worker is in the middle of
\* an iteration holding a box.
C5_ZeroIffNoBoxInFlight ==
  par_pc = "barrier" => (number_of_boxes = 0 <=> NoBoxInFlight)

\* C5, amended: from the start of the workers until CheckSat returns,
\* number_of_boxes is 0 exactly when the shared stack is empty and no worker has
\* a box it popped or kept and did not discard, whether that worker is still in
\* its loop or has left it.
C5_ZeroIffNoBoxLeft ==
  par_pc = "barrier" =>
    (number_of_boxes = 0 <=>
       (global_stack = <<>> /\ \A w \in Workers : ~Undiscarded(w)))

\* The counter is back at 0 after the workers discarded several boxes.
C5_Witness ==
  /\ par_pc = "barrier"
  /\ number_of_boxes = 0
  /\ Cardinality(par_hist.finished) >= 3

(***************************************************************************)
(* Fair scheduling: the calling thread and every worker thread keep taking *)
(* steps while they can.  SIGINT and the outcome of a use of destroyed     *)
(* locals are not forced.                                                  *)
(***************************************************************************)
CallerStep ==
  \/ SeqStart \/ SeqPop \/ SeqReturnFalse \/ SeqPrune \/ SeqEvaluate
  \/ SeqBranchMaxDiam \/ SeqBranchGradientDescent
  \/ ParStart \/ ParSeedPush \/ ParSeedCount \/ ParSpawn
  \/ ParRethrow \/ ParReturnTrue \/ ParReturnFalse

WorkerStep(w) ==
  /\ w \in Workers
  /\ \/ WTestFound(w) \/ WTestCount(w) \/ WInterrupt(w)
     \/ WPop(w) \/ WProcess(w) \/ WPush(w)

FairSpec ==
  /\ Spec
  /\ WF_vars(CallerStep)
  /\ \A w \in 0 .. MaxJobs - 1 : WF_vars(WorkerStep(w))

\* C6: under fair scheduling every worker eventually leaves its loop and the
\* parallel CheckSat returns; no worker spins forever on an empty shared stack.
C6_Terminates ==
  <>(par_pc = "done" /\ \A w \in Workers : w_pc[w] \notin InLoop)

\* C7: every box that enters the shared stack is popped by at most one worker
\* and no box is processed twice; when the parallel CheckSat returns false after
\* its workers ran, every box that entered the stack or was kept from a
\* bisection has been processed to completion; when it returns with boxes left
\* unexplored, a delta-sat box was found.
C7_EachBoxOnce ==
  /\ ~par_hist.twice
  /\ par_hist.popped \subseteq par_hist.created
  /\ par_hist.finished \subseteq par_hist.created
  /\ (par_ret = "false" /\ found_delta_sat = -1) =>
       /\ par_hist.finished = par_hist.created
       /\ global_stack = <<>>
  /\ (par_ret \in {"true", "false"} /\ par_hist.finished # par_hist.created) =>
       found_delta_sat # -1

\* Two workers emptied a tree of boxes between them and CheckSat returned false.
C7_Witness ==
  /\ par_ret = "false"
  /\ config.number_of_jobs >= 2
  /\ Cardinality(par_hist.created) >= 4
  /\ Cardinality(par_hist.popped) >= 3
  /\ par_hist.finished = par_hist.created

\* C8: when a worker of the parallel CheckSat has failed, the workers still in
\* their loops are not left waiting for the box the failed worker held: they
\* are about to fail or leave as well (the interrupt flag or found_delta_sat is
\* set, or the counter is 0), or a box is still on the stack or with a worker in
\* its loop; so CheckSat can still join them and report the error.
C8_NoWaitForLostBox ==
  ( /\ par_pc = "barrier"
    /\ \E w \in Workers : w_pc[w] = "threw"
    /\ \E w \in Workers : w_pc[w] \in InLoop )
  => \/ config.check_interrupt /\ g_interrupted
     \/ found_delta_sat # -1
     \/ number_of_boxes = 0
     \/ global_stack # <<>>
     \/ \E w \in Workers : Holding(w)

\* The formulas that evaluate to UNKNOWN on the box with an evaluation wider
\* than the precision.
WideUnknowns(box) ==
  { k \in DOMAIN formula_evaluators :
      LET res == FormulaEvaluate(formula_evaluators[k], box)
      IN  res.type = "UNKNOWN" /\ Diam(res.evaluation) > config.precision }

\* The boxes returned with a true verdict, by either engine.
ReturnedSatBoxes ==
  (IF seq_ret = "true" THEN {seq_cs.box} ELSE {}) \cup
  (IF par_ret = "true" THEN {par_cs.box} ELSE {})

\* C9 as stated: a box returned with verdict true has no formula that is UNKNOWN
\* with an evaluation wider than the precision, and every free variable of a
\* formula that is UNKNOWN on it has diameter at most the precision.
C9_DeltaComplete ==
  \A box \in ReturnedSatBoxes :
    /\ WideUnknowns(box) = {}
    /\ \A k \in DOMAIN formula_evaluators :
         FormulaEvaluate(formula_evaluators[k], box).type = "UNKNOWN" =>
           \A v \in formula_evaluators[k].vars : Diam(box[v]) <= config.precision

\* C9, amended: a box returned with verdict true is not empty, no formula is
\* UNSAT on it, and every formula that is UNKNOWN on it with an evaluation wider
\* than the precision has no bisectable free variable in it.
C9_DeltaCompleteUpToBisectable ==
  \A box \in ReturnedSatBoxes :
    /\ ~IsEmpty(box)
    /\ \A k \in DOMAIN formula_evaluators :
         FormulaEvaluate(formula_evaluators[k], box).type # "UNSAT"
    /\ \A k \in WideUnknowns(box) :
         \A v \in formula_evaluators[k].vars : ~IsBisectable(box[v])

\* Both engines returned true, the parallel one with a box reached by bisection
\* on which a formula is UNKNOWN within the precision.
C9_Witness ==
  /\ seq_ret = "true"
  /\ par_ret = "true"
  /\ par_hist.finished # {}
  /\ WideUnknowns(par_cs.box) = {}
  /\ \E k \in DOMAIN formula_evaluators :
       FormulaEvaluate(formula_evaluators[k], par_cs.box).type = "UNKNOWN"

\* C10: the sequential CheckSat starts from the stack [(Box0, -1)]; the box it
\* pops is always the most recently pushed of those on the stack; it returns
\* true at the first popped box that is not empty after Prune and at which the
\* search stops (no candidate, or no branching point), every box it moved past
\* being none such; and it returns false exactly when the stack is empty without
\* such a box.
C10_SequentialSearch ==
  /\ (seq_pc = "loop" /\ seq_hist.popped = 0) => stack = << <<box0, -1>> >>
  /\ Len(seq_hist.ages) = Len(stack)
  /\ seq_pc # "call" =>
       \A i \in DOMAIN seq_hist.ages : seq_hist.ages[i] <= seq_hist.pushes
  /\ seq_pc \in {"prune", "eval", "branch"} =>
       \A i \in DOMAIN seq_hist.ages : seq_hist.ages[i] < seq_hist.popped
  /\ (seq_pc \in {"loop", "branch"} /\ seq_hist.popped > 0) =>
       ~IsDeltaSatBox(seq_cs.box)
  /\ seq_ret = "true" => IsDeltaSatBox(seq_cs.box)
  /\ seq_ret \in {"true", "false"} =>
       (seq_ret = "false" <=> (stack = <<>> /\ ~IsDeltaSatBox(seq_cs.box)))

\* The sequential engine returned true after several bisections, with boxes
\* still on its stack.
C10_Witness ==
  /\ seq_ret = "true"
  /\ seq_hist.pushes >= 5
  /\ seq_stat.num_prune >= 4
  /\ stack # <<>>

\* C11 as stated, for FillUp: it returns at most n boxes, and it stops only when
\* it holds n boxes or no box of its working set has a bisectable dimension; what
\* it returns is what the seeding of CheckSat is given.
C11_FillUpStops ==
  fu_pc = "done" =>
    /\ fu_ret = FillUp(fu_box, fu_n)
    /\ Len(fu_ret) <= fu_n
    /\ \/ Len(fu_ret) = fu_n
       \/ \A i \in DOMAIN fu_ret : FindMaxDiamIdx(fu_ret[i]) = -1


\* Every slot is written at most once, every thread's Prune calls all run on one
\* ContractorIbexFwdbwd, and no two threads ever run Prune on the same one.
MtOwnInstance ==
  /\ \A i \in MtThreads : Len(mt_writes[i]) <= 1
  /\ \A t \in MtThreads : Cardinality(mt_used[t]) <= 1
  /\ \A t, u \in MtThreads : t # u => mt_used[t] \cap mt_used[u] = {}
  /\ \A t \in MtThreads : mt_pc[t] = "pruning" => mt_ctc[t] = ctcs_[t] /\ mt_ctc[t] # 0

PolyChanged == { i \in PolyDims : poly_old.box[i] # poly_cs.box[i] }

\* C13 as stated: ContractorIbexPolytope::Prune adds to cs.output exactly the
\* dimensions whose interval differs from before the call, adds its formulas to
\* used_constraints iff some dimension changed, and a call that changes nothing
\* (also one on an already empty box) leaves output and used_constraints as they were.
C13_OutputIsWhatChanged ==
  poly_calls > 0 =>
    /\ poly_cs.output = poly_old.output \cup PolyChanged
    /\ poly_cs.used_constraints =
         IF PolyChanged # {} THEN poly_old.used_constraints \cup formulas_
                             ELSE poly_old.used_constraints

\* The same for the calls on a box that is not empty at the entry.
PolyOutputExactOnNonEmpty ==
  (poly_calls > 0 /\ ~IsEmpty(poly_old.box)) =>
    /\ poly_cs.output = poly_old.output \cup PolyChanged
    /\ poly_cs.used_constraints =
         IF PolyChanged # {} THEN poly_old.used_constraints \cup formulas_
                             ELSE poly_old.used_constraints

\* C14 as stated: Expand is idempotent; for every expression on which Expand
\* succeeds, expanding the result again gives a structurally equal expression.
C14_ExpandIdempotent ==
  sym_op = "ExpandAgain" => sym_out = sym_prev

\* Some power in e has an addition as its base.
RECURSIVE HasPowOfSum(_)
HasPowOfSum(e) ==
  CASE get_kind(e) = "Pow" ->
         \/ is_addition(get_first_argument(e))
         \/ HasPowOfSum(get_first_argument(e))
         \/ HasPowOfSum(get_second_argument(e))
    [] get_kind(e) = "Abs" -> HasPowOfSum(get_argument(e))
    [] is_binary(e) ->
         HasPowOfSum(get_first_argument(e)) \/ HasPowOfSum(get_second_argument(e))
    [] get_kind(e) = "IfThenElse" -> HasPowOfSum(e[3]) \/ HasPowOfSum(e[4])
    [] OTHER -> FALSE

\* C15 as stated: Expand of pow(base, n), base an addition and n a constant
\* positive integer, contains no power whose base is an addition.
C15_PowOfSumResolved ==
  ( /\ sym_op = "Expand"
    /\ get_kind(sym_e) = "Pow"
    /\ is_addition(get_first_argument(sym_e))
    /\ is_constant(get_second_argument(sym_e))
    /\ get_constant_value(get_second_argument(sym_e))[1] > 0
    /\ get_constant_value(get_second_argument(sym_e))[2] = 1 )
  => (~IsError(sym_out) /\ ~HasPowOfSum(sym_out))

\* C16: substituting every variable by itself in an expression without NaN cell,
\* of any kind, gives a structurally equal expression.
C16_IdentitySubstitution ==
  (sym_op = "Substitute" /\ sym_subst = IdentitySubstitution /\ ~HasNaN(sym_e))
  => sym_out = sym_e

\* The identity substitution is applied to an uninterpreted function of a Boolean
\* and a real variable.
C16_Witness ==
  /\ sym_op = "Substitute"
  /\ sym_subst = IdentitySubstitution
  /\ sym_e = uninterpreted_function("uf", { "x", "b" })
  /\ sym_out = sym_e

\* C17: Differentiate of an abs, min, max, if-then-else or uninterpreted-function
\* cell with respect to x fails as not differentiable exactly when x is among the
\* variables of the cell, and returns the constant 0 otherwise.
C17_NotDifferentiableIffFree ==
  ( /\ sym_op = "Differentiate"
    /\ get_kind(sym_e) \in {"Abs", "Min", "Max", "IfThenElse", "UninterpretedFunction"} )
  => /\ sym_out = NotDifferentiable <=> sym_x \in GetVariables(sym_e)
     /\ sym_out = Zero <=> sym_x \notin GetVariables(sym_e)

\* An if-then-else is differentiated with respect to a variable of its condition
\* that is in neither branch.
C17_Witness ==
  /\ sym_op = "Differentiate"
  /\ get_kind(sym_e) = "IfThenElse"
  /\ sym_x \in GetFreeVariables(sym_e[2])
  /\ sym_x \notin GetVariables(sym_e[3]) \cup GetVariables(sym_e[4])
  /\ sym_out = NotDifferentiable

\* Evaluate of e under env comes to a NaN cell.
RECURSIVE EvaluateReachesNaN(_, _)
EvaluateReachesNaN(e, env) ==
  CASE get_kind(e) = "NaN" -> TRUE
    [] get_kind(e) = "Abs" -> EvaluateReachesNaN(get_argument(e), env)
    [] is_binary(e) ->
         \/ EvaluateReachesNaN(get_first_argument(e), env)
         \/ /\ ~IsError(Evaluate(get_first_argument(e), env))
            /\ EvaluateReachesNaN(get_second_argument(e), env)
    [] get_kind(e) = "IfThenElse" ->
         IF e[2][1] = "Gt" /\ IsError(EvaluateFormula(e[2], env))
         THEN \/ EvaluateReachesNaN(e[2][2], env)
              \/ /\ ~IsError(Evaluate(e[2][2], env))
                 /\ EvaluateReachesNaN(e[2][3], env)
         ELSE IF IsError(EvaluateFormula(e[2], env)) THEN FALSE
         ELSE IF EvaluateFormula(e[2], env)[2] THEN EvaluateReachesNaN(e[3], env)
         ELSE EvaluateReachesNaN(e[4], env)
    [] OTHER -> FALSE

\* Differentiate of e comes to a NaN cell: it descends through sums and products.
RECURSIVE DifferentiateReachesNaN(_)
DifferentiateReachesNaN(e) ==
  CASE get_kind(e) = "NaN" -> TRUE
    [] get_kind(e) \in {"Add", "Mul"} ->
         \/ DifferentiateReachesNaN(get_first_argument(e))
         \/ DifferentiateReachesNaN(get_second_argument(e))
    [] OTHER -> FALSE

\* C18: Evaluate, Expand, Substitute and Differentiate fail whenever they reach a
\* NaN cell, whatever the environment, the substitution or the variable.
C18_NaNFails ==
  /\ (sym_op \in {"Expand", "Substitute"} /\ HasNaN(sym_e)) => IsError(sym_out)
  /\ (sym_op = "Differentiate" /\ DifferentiateReachesNaN(sym_e)) => IsError(sym_out)
  /\ (sym_op = "Evaluate" /\ EvaluateReachesNaN(sym_e, sym_env)) => IsError(sym_out)

\* A product with a NaN cell under one of its factors has been evaluated.
C18_Witness ==
  /\ sym_op = "Evaluate"
  /\ sym_e = Times(Plus(Var("x"), Var("y")), Plus(NaN, Var("x")))
  /\ IsError(sym_out)

\* exponent is a constant whose value is an integer >= 0.
IsConstantNonNegativeInteger(exponent) ==
  /\ is_constant(exponent)
  /\ get_constant_value(exponent)[1] >= 0
  /\ get_constant_value(exponent)[2] = 1

\* The flags of Div, Add and Mul cells.
FlagOfDivAddMul ==
  /\ sym_op = "Div" => (is_polynomial(sym_out) <=>
                          is_polynomial(sym_e) /\ is_constant(sym_e2))
  /\ sym_op \in {"Add", "Mul"} => (is_polynomial(sym_out) <=>
                                     is_polynomial(sym_e) /\ is_polynomial(sym_e2))

C20_IteSelectsBranch ==
  ( /\ sym_op = "Evaluate"
    /\ get_kind(sym_e) = "IfThenElse"
    /\ ~IsError(EvaluateFormula(sym_e[2], sym_env)) )
  => /\ EvaluateFormula(sym_e[2], sym_env)[2] => sym_out = Evaluate(sym_e[3], sym_env)
     /\ ~EvaluateFormula(sym_e[2], sym_env)[2] => sym_out = Evaluate(sym_e[4], sym_env)
     /\ (sym_e = Ite02 /\ sym_env["x"] = <<10, 1>> /\ sym_env["y"] = <<-10, 1>>)
          => sym_out = Value(<<2, 1>>)

\* An if-then-else whose else-branch cannot be evaluated, and whose then-branch is
\* an if-then-else, has been evaluated to 2 with x = 10 and y = -10.
C20_Witness ==
  /\ sym_op = "Evaluate"
  /\ get_kind(sym_e) = "IfThenElse"
  /\ get_kind(sym_e[3]) = "IfThenElse"
  /\ IsError(Evaluate(sym_e[4], sym_env))
  /\ sym_env["x"] = <<10, 1>>
  /\ sym_out = Value(<<2, 1>>)

\* `pushed` and `kept` are the two halves of `parent` bisected at one of its
\* bisectable dimensions, `pushed` being the left half iff side = 1.
IsSplitOf(parent, side, pushed, kept) ==
  \E bp \in DOMAIN parent :
    /\ IsBisectable(parent[bp])
    /\ Bisect(parent, bp)[side] = pushed
    /\ Bisect(parent, bp)[3 - side] = kept

\* C21: a branching step of a worker increments number_of_boxes by exactly 1,
\* pushes exactly one child of the bisection on the shared stack and makes the
\* other child the worker's current box; the worker goes on to process that box
\* without popping; the pushed child is the left one iff the worker's policy
\* says so, the policy starts at config.stack_left_box_first, is flipped by each
\* branching step and is changed by nothing else.
C21_PushOneKeepOther ==
  [][\A w \in Workers :
       /\ (w_pc[w] = "idle" /\ w_pc'[w] # "idle") =>
            w_left'[w] = config.stack_left_box_first
       /\ (w_pc[w] = "prune" /\ w_pc'[w] = "push") =>
            /\ number_of_boxes' = number_of_boxes + 1
            /\ global_stack' = global_stack
            /\ w_left'[w] = w_left[w]
       /\ (w_pc[w] = "push" /\ w_pc'[w] = "test_found") =>
            /\ number_of_boxes' = number_of_boxes
            /\ Len(global_stack') = Len(global_stack) + 1
            /\ SubSeq(global_stack', 1, Len(global_stack)) = global_stack
            /\ IsSplitOf(status_vector_[w].box, IF w_left[w] THEN 1 ELSE 2,
                         global_stack'[Len(global_stack')].box,
                         status_vector_'[w].box)
            /\ need_to_pop'[w] = FALSE
            /\ w_left'[w] = ~w_left[w]
       /\ (w_pc[w] = "body" /\ ~need_to_pop[w] /\ w_pc'[w] # "body") =>
            /\ w_pc'[w] \in {"prune", "threw", "crashed"}
            /\ global_stack' = global_stack
            /\ status_vector_'[w] = status_vector_[w]
       /\ (w_pc[w] \in InLoop \ {"push"} /\ w_pc'[w] \in InLoop) =>
            w_left'[w] = w_left[w]
    ]_vars

\* A worker has just made its second branching step in a row: it keeps a child
\* of a child it kept, and its policy is back at the configured one.
C21_Witness ==
  \E w \in Workers :
    /\ w_pc[w] = "test_found"
    /\ ~need_to_pop[w]
    /\ w_left[w] = config.stack_left_box_first
    /\ Len(w_id[w]) >= 3
    /\ w_id[w][Len(w_id[w])] # w_id[w][Len(w_id[w]) - 1]
    /\ Len(global_stack) >= 2

\* The formulas that evaluate to UNSAT on the box.
UnsatOn(fs, box) ==
  { k \in DOMAIN fs : FormulaEvaluate(fs[k], box).type = "UNSAT" }

\* The UNKNOWN formulas whose evaluation is wider than the precision.
WideUnknownOn(fs, box, precision) ==
  { k \in DOMAIN fs :
      LET res == FormulaEvaluate(fs[k], box)
      IN  res.type = "UNKNOWN" /\ Diam(res.evaluation) > precision }

\* C22: when no formula is UNSAT on the box, EvaluateBox returns a bitset, and
\* dimension i is in it iff some formula is UNKNOWN with an evaluation strictly
\* wider than the precision, has variable i among its variables, and box[i] is
\* bisectable; VALID formulas and UNKNOWN formulas within the precision add
\* nothing.
C22_CandidatesExact ==
  (ev_out.pc = "done" /\ UnsatOn(ev_fs, ev_old.box) = {}) =>
    /\ ~ev_out.none
    /\ ev_out.cand =
         { i \in DOMAIN ev_old.box :
             \E k \in WideUnknownOn(ev_fs, ev_old.box, ev_precision) :
               i \in ev_fs[k].vars /\ IsBisectable(ev_old.box[i]) }

\* EvaluateBox returned a bitset to which one wide UNKNOWN formula contributed,
\* while another formula, UNKNOWN within the precision, has a bisectable
\* variable that is not in the bitset.
C22_Witness ==
  /\ ev_out.pc = "done"
  /\ ~ev_out.none
  /\ ev_out.cand # {}
  /\ \E k \in DOMAIN ev_fs :
       /\ FormulaEvaluate(ev_fs[k], ev_old.box).type = "UNKNOWN"
       /\ k \notin WideUnknownOn(ev_fs, ev_old.box, ev_precision)
       /\ \E v \in ev_fs[k].vars : IsBisectable(ev_old.box[v]) /\ v \notin ev_out.cand

\* C23: at the first formula, in list order, that is UNSAT on the box,
\* EvaluateBox sets the box of cs empty, adds that formula and no other to
\* used_constraints, returns none and evaluates no later formula; when no
\* formula is UNSAT it leaves the box and used_constraints as they were.
C23_StopsAtFirstUnsat ==
  ev_out.pc = "done" =>
    LET unsat == UnsatOn(ev_fs, ev_old.box)
    IN  IF unsat # {}
        THEN LET first == CHOOSE k \in unsat : \A j \in unsat : k <= j
             IN  /\ ev_out.none
                 /\ IsEmpty(ev_cs.box)
                 /\ ev_cs.used_constraints = ev_old.used_constraints \cup {first}
                 /\ ev_out.evaluated = first
        ELSE /\ ~ev_out.none
             /\ ev_cs = ev_old

\* EvaluateBox returned none at the first of two formulas that are both UNSAT
\* on the box; the second one was not added to used_constraints.
C23_Witness ==
  /\ ev_out.pc = "done"
  /\ ev_out.none
  /\ UnsatOn(ev_fs, ev_old.box) = {1, 2}
  /\ ev_out.evaluated = 1
  /\ ev_cs.used_constraints = {1}
  /\ IsEmpty(ev_cs.box)

\* C24 as stated: in the sequential CheckSat the ordering policy starts at
\* config.stack_left_box_first and flips after each branching step, whatever
\* the branching strategy: the k-th branching step of a call pushes its children
\* left first iff config.stack_left_box_first and k is odd, or neither.
C24_OrderAlternates ==
  /\ \A k \in DOMAIN seq_hist.orders :
       seq_hist.orders[k] = (config.stack_left_box_first <=> (k % 2 = 1))
  /\ seq_pc # "call" =>
       stack_left_box_first_ =
         (config.stack_left_box_first <=> (Len(seq_hist.orders) % 2 = 0))

\* The assignments covered by a list of boxes.
PointsOfAll(boxes) == UNION { PointsOf(boxes[i]) : i \in DOMAIN boxes }

\* C25 as stated: FillUp never loses part of its input.  What FillUp returns is
\* a non-empty list of boxes whose union is the input box; a box that has no
\* bisectable dimension is kept by DoubleUp, so it is returned as it is.
C25_FillUpKeepsInput ==
  fu_pc = "done" =>
    /\ fu_ret = FillUp(fu_box, fu_n)
    /\ fu_ret # << >>
    /\ PointsOfAll(fu_ret) = PointsOf(fu_box)
    /\ FindMaxDiamIdx(fu_box) = -1 => fu_ret = << fu_box >>

\* The boxes that exist and are not done with: those on the shared stack and
\* those held by a worker in the middle of an iteration.
BoxesInFlight ==
  Len(global_stack) + Cardinality({ w \in Workers : Holding(w) })

\* C26 as stated: in every reachable state of the parallel engine
\* number_of_boxes is non-negative and at least the number of boxes on the
\* shared stack plus the number of workers holding a box.
C26_CounterCoversBoxes ==
  /\ number_of_boxes >= 0
  /\ number_of_boxes >= BoxesInFlight

\* C26, amended: the same in every state but those of the seeding loop between
\* the push of a box and the increment that counts it, where no worker runs
\* yet; so whenever a worker reads 0 there is no box in flight.
C26_CounterCoversBoxesOnceCounted ==
  /\ number_of_boxes >= 0
  /\ par_pc # "seed_count" => number_of_boxes >= BoxesInFlight
  /\ par_pc = "seed_count" => number_of_boxes = BoxesInFlight - 1
  /\ \A w \in Workers :
       (w_pc[w] \in InLoop /\ number_of_boxes = 0) => BoxesInFlight = 0

\* The workers run, boxes are on the shared stack and with workers, one worker
\* is between the increment and the push of a branching step, and the counter
\* has been decremented for boxes already discarded.
C26_Witness ==
  /\ par_pc = "barrier"
  /\ global_stack # << >>
  /\ \E w \in Workers : w_pc[w] = "push"
  /\ par_hist.finished # {}
  /\ number_of_boxes = BoxesInFlight + 1

\* C27: whenever the sequential CheckSat returns false, the box of cs is empty
\* on return; the stack is found empty only after an iteration whose box was
\* emptied by Prune or marked empty by EvaluateBox.
C27_FalseLeavesEmptyBox ==
  /\ (seq_pc = "loop" /\ seq_hist.popped > 0 /\ stack = << >>) => IsEmpty(seq_cs.box)
  /\ seq_ret = "false" => (stack = << >> /\ IsEmpty(seq_cs.box))

\* The sequential CheckSat returned false after several bisections with a
\* contractor that never empties a box: the last box was marked empty by
\* EvaluateBox.
C27_Witness ==
  /\ seq_ret = "false"
  /\ contractor = "Id"
  /\ seq_hist.pushes >= 5
  /\ seq_cs.used_constraints # {}
  /\ IsEmpty(seq_cs.box)

\* C28 as stated, for the lazily populated contractor: the assertion on slot 0
\* that Prune reaches through is_dummy() never fails, in whatever order the
\* threads make their first Prune call, and every Prune call made has found or
\* populated the slot of the calling thread.
C28_SlotZeroAssertHolds ==
  mt_variant = "lazy" =>
    /\ \A t \in MtThreads : mt_pc[t] # "aborted"
    /\ \A t \in MtThreads : mt_calls[t] >= 1 => (CtcReady(t) /\ ctcs_[t] # 0)

\* The threads started that no live JoiningThread owns: their handle has been
\* released.
JtReleased == { th \in 1 .. jt_started : \A o \in jt_alive : t_[o] # th }

\* C29 as stated: after any sequence of construction, move-construction,
\* move-assignment and destruction of JoiningThread objects, no thread handle
\* was destroyed or overwritten while joinable (std::terminate was not called),
\* every thread whose handle was released has been joined exactly once, and no
\* thread still owned has been joined.
C29_JoinedOnceBeforeRelease ==
  /\ ~jt_terminated
  /\ \A th \in JtReleased : jt_joins[th] = 1
  /\ \A th \in (1 .. jt_started) \ JtReleased : jt_joins[th] = 0

\* The variables of e that the substitution was not asked to replace.
NotReplaced(e, s) ==
  { v \in GetVariables(e) :
      IF v \in BooleanVariables THEN v \notin DOMAIN s.formula
                                ELSE v \notin DOMAIN s.expr }

\* C30 as stated: Substitute removes no variable it was not asked to replace:
\* every variable of e outside the domain of the map that applies to it is a
\* variable of the result, and substituting with empty maps returns an
\* expression structurally equal to e, uninterpreted functions included.
C30_SubstituteKeepsVariables ==
  (sym_op = "Substitute" /\ ~IsError(sym_out)) =>
    /\ NotReplaced(sym_e, sym_subst) \subseteq GetVariables(sym_out)
    /\ (sym_subst.expr = << >> /\ sym_subst.formula = << >>) => sym_out = sym_e

=============================================================================
